---------------------------- MODULE Spec2Model ----------------------------
(***************************************************************************)
(* Capability discovery and dynamic variant selection of libdyson.          *)
(*                                                                          *)
(* A Python dict is a TLA+ function whose DOMAIN is the dict's key set; a   *)
(* Python None passed where a dict is expected is the value NoneDict.  A    *)
(* Python float is an exact rational [num, den] in lowest terms: the only   *)
(* float operations of the code are sums and products of short decimal      *)
(* literals, one division and min(), and min(1.0, x) returns exactly 1.0 as *)
(* soon as x reaches 1, with or without rounding.  A Python exception is    *)
(* the result Raised.  A device-type string is a sequence of characters.    *)
(***************************************************************************)
EXTENDS Integers, Sequences, FiniteSets, TLC

\* ------------------------------------------------------------ bounds

\* Number of single-field changes applied to a telemetry snapshot.
MaxEdits == 1

\* Number of tags outside the two decision lists added to a tag set.
MaxOtherTags == 1

\* Length of a device-type string.
MaxTypeLen == 4

\* Number of calls started on the shared discovery and factory instances.
MaxCalls == 3

\* ------------------------------------------------------------ values

\* Python's None as a field value.
None == "None"

\* A non-null field value as the vendor protocol sends it.
Values == {None, "ON"}

\* None passed in place of a dict (Optional[Dict]).
NoneDict == [NoneType |-> "None"]

\* {}
EmptyDict == [k \in {} |-> None]

\* ------------------------------------------------------------ capability tags

DeviceCapability ==
  { "BASIC_FAN_CONTROL", "BASIC_OSCILLATION", "NIGHT_MODE", "SLEEP_TIMER",
    "ANGLE_OSCILLATION", "FRONT_AIRFLOW",
    "AUTO_MODE", "FILTER_MONITORING", "PM_SENSORS",
    "VOC_SENSOR", "NO2_SENSOR", "CO2_SENSOR", "HUMIDITY_SENSOR",
    "TEMPERATURE_SENSOR",
    "HUMIDIFICATION", "WATER_HARDNESS",
    "HEATING",
    "TILT_CONTROL", "CONTINUOUS_MONITORING" }

\* ------------------------------------------------------------ floats

\* The operators below bind every operand to its value before using it (a
\* function applied to it, or a set {f(v) : v \in {e}}), so that an operand is
\* evaluated once however often the definition reads it.

GCD[a \in Nat, b \in Nat] == IF b = 0 THEN a ELSE GCD[b, a % b]

Reduce[n \in Nat, d \in Nat] == [num |-> n \div GCD[n, d], den |-> d \div GCD[n, d]]

\* The rational n/d (d > 0, n >= 0) in lowest terms.
Rat(n, d) == Reduce[n, d]

Zero == [num |-> 0, den |-> 1]
One == [num |-> 1, den |-> 1]

\* x + y
RatAdd(x, y) ==
  CHOOSE r \in { Rat(a.num * b.den + b.num * a.den, a.den * b.den) :
                   a \in {x}, b \in {y} } : TRUE

\* x * y
RatMul(x, y) ==
  CHOOSE r \in { Rat(a.num * b.num, a.den * b.den) : a \in {x}, b \in {y} } : TRUE

\* x / y (y > 0)
RatDiv(x, y) ==
  CHOOSE r \in { Rat(a.num * b.den, a.den * b.num) : a \in {x}, b \in {y} } : TRUE

\* x <= y, x < y
RatLE(x, y) == \E a \in {x}, b \in {y} : a.num * b.den <= b.num * a.den
RatLT(x, y) == \E a \in {x}, b \in {y} : a.num * b.den < b.num * a.den

\* min(x, y): Python returns the first argument when they are equal.
RatMin(x, y) ==
  CHOOSE r \in { IF RatLT(b, a) THEN b ELSE a : a \in {x}, b \in {y} } : TRUE

\* ------------------------------------------------------------ results

\* An exception left the called function.
Raised == [raised |-> TRUE]

\* The function returned v.
Return(v) == [raised |-> FALSE, value |-> v]

\* `field in data` raises TypeError when data is None.
TypeError(data) == data = NoneDict

\* ------------------------------------------------------------ detectors

\* Faulty variant of _has_field: the null check is missing.
_has_field_key_only(data, field) == field \in DOMAIN data

\* field in data and data[field] is not None   (data a dict)
_has_field(data, field) == field \in DOMAIN data /\ data[field] # None

\* all(self._has_field(data, field) for field in fields)
_has_fields(data, fields) == \A field \in fields : _has_field(data, field)

BasicFanDetector_detect(status_data, environmental_data) ==
  IF TypeError(status_data) THEN Raised
  ELSE Return(
    (IF _has_fields(status_data, {"fpwr", "fnsp"})
       THEN {"BASIC_FAN_CONTROL"} ELSE {})
    \cup (IF _has_field(status_data, "oson")
       THEN {"BASIC_OSCILLATION"} ELSE {})
    \cup (IF _has_fields(status_data, {"nmod", "nmdv"})
       THEN {"NIGHT_MODE"} ELSE {})
    \cup (IF _has_field(status_data, "sltm")
       THEN {"SLEEP_TIMER"} ELSE {}))

BasicFanDetector_get_required_fields ==
  {"fpwr", "fnsp", "oson", "nmod", "nmdv", "sltm"}

BasicFanDetector_get_confidence_score(status_data, environmental_data) ==
  IF TypeError(status_data) THEN Raised
  ELSE LET c1 == IF \A field \in {"fpwr", "fnsp"} : _has_field(status_data, field)
                   THEN RatAdd(Zero, Rat(8, 10)) ELSE Zero
           c2 == IF _has_field(status_data, "oson")
                   THEN RatAdd(c1, Rat(15, 100)) ELSE c1
           c3 == IF _has_field(status_data, "sltm")
                   THEN RatAdd(c2, Rat(5, 100)) ELSE c2
       IN Return(RatMin(One, c3))

\* Faulty variant of AdvancedOscillationDetector_detect: a tilt field reports
\* TILT_CONTROL.
AdvancedOscillationDetector_detect_with_tilt(status_data, environmental_data) ==
  IF TypeError(status_data) THEN Raised
  ELSE Return(
    (IF _has_fields(status_data, {"osal", "osau"})
       THEN {"ANGLE_OSCILLATION"} ELSE {})
    \cup (IF \E field \in {"tilt", "otau", "otal"} : _has_field(status_data, field)
       THEN {"TILT_CONTROL"} ELSE {}))

AdvancedOscillationDetector_detect(status_data, environmental_data) ==
  IF TypeError(status_data) THEN Raised
  ELSE Return(IF _has_fields(status_data, {"osal", "osau"})
                THEN {"ANGLE_OSCILLATION"} ELSE {})

AdvancedOscillationDetector_get_required_fields == {"osal", "osau", "ancp"}

AdvancedOscillationDetector_get_confidence_score(status_data, environmental_data) ==
  IF TypeError(status_data) THEN Raised
  ELSE IF _has_fields(status_data, {"osal", "osau"}) THEN Return(Rat(95, 100))
  ELSE IF \E field \in {"osal", "osau"} : _has_field(status_data, field)
         THEN Return(Rat(5, 10))
  ELSE Return(Zero)

\* ["p25r", "p10r", "pm25", "pm10"]
pm_fields == {"p25r", "p10r", "pm25", "pm10"}

\* Faulty variant of PurificationDetector_detect: FILTER_MONITORING needs exactly
\* one of the two filter fields.
PurificationDetector_detect_one_filter(status_data, environmental_data) ==
  IF TypeError(status_data) \/ TypeError(environmental_data) THEN Raised
  ELSE Return(
    (IF _has_field(status_data, "auto") THEN {"AUTO_MODE"} ELSE {})
    \cup (IF _has_field(status_data, "cflr") # _has_field(status_data, "hflr")
       THEN {"FILTER_MONITORING"} ELSE {})
    \cup (IF \E field \in pm_fields : _has_field(environmental_data, field)
       THEN {"PM_SENSORS"} ELSE {})
    \cup (IF _has_field(status_data, "fdir") THEN {"FRONT_AIRFLOW"} ELSE {}))

PurificationDetector_detect(status_data, environmental_data) ==
  IF TypeError(status_data) \/ TypeError(environmental_data) THEN Raised
  ELSE Return(
    (IF _has_field(status_data, "auto") THEN {"AUTO_MODE"} ELSE {})
    \cup (IF _has_field(status_data, "cflr") \/ _has_field(status_data, "hflr")
       THEN {"FILTER_MONITORING"} ELSE {})
    \cup (IF \E field \in pm_fields : _has_field(environmental_data, field)
       THEN {"PM_SENSORS"} ELSE {})
    \cup (IF _has_field(status_data, "fdir") THEN {"FRONT_AIRFLOW"} ELSE {}))

PurificationDetector_get_required_fields ==
  {"auto", "cflr", "hflr", "fdir", "p25r", "p10r", "pm25", "pm10"}

\* Faulty variant of PurificationDetector_get_confidence_score: the sum is
\* returned without min(1.0, .).
PurificationDetector_confidence_unclamped(status_data, environmental_data) ==
  IF TypeError(status_data) \/ TypeError(environmental_data) THEN Raised
  ELSE LET c1 == IF _has_field(status_data, "auto")
                   THEN RatAdd(Zero, Rat(4, 10)) ELSE Zero
           c2 == IF _has_field(status_data, "cflr") \/ _has_field(status_data, "hflr")
                   THEN RatAdd(c1, Rat(4, 10)) ELSE c1
           c3 == IF \E field \in pm_fields : _has_field(environmental_data, field)
                   THEN RatAdd(c2, Rat(3, 10)) ELSE c2
           c4 == IF _has_field(status_data, "fdir")
                   THEN RatAdd(c3, Rat(1, 10)) ELSE c3
       IN Return(c4)

PurificationDetector_get_confidence_score(status_data, environmental_data) ==
  IF TypeError(status_data) \/ TypeError(environmental_data) THEN Raised
  ELSE LET c1 == IF _has_field(status_data, "auto")
                   THEN RatAdd(Zero, Rat(4, 10)) ELSE Zero
           c2 == IF _has_field(status_data, "cflr") \/ _has_field(status_data, "hflr")
                   THEN RatAdd(c1, Rat(4, 10)) ELSE c1
           c3 == IF \E field \in pm_fields : _has_field(environmental_data, field)
                   THEN RatAdd(c2, Rat(3, 10)) ELSE c2
           c4 == IF _has_field(status_data, "fdir")
                   THEN RatAdd(c3, Rat(1, 10)) ELSE c3
       IN Return(RatMin(One, c4))

\* ["va10", "noxl", "co2r"]
advanced_fields == {"va10", "noxl", "co2r"}

AdvancedEnvironmentalDetector_detect(status_data, environmental_data) ==
  IF TypeError(environmental_data) THEN Raised
  ELSE Return(
    (IF _has_field(environmental_data, "va10") THEN {"VOC_SENSOR"} ELSE {})
    \cup (IF _has_field(environmental_data, "noxl") THEN {"NO2_SENSOR"} ELSE {})
    \cup (IF _has_field(environmental_data, "co2r") THEN {"CO2_SENSOR"} ELSE {})
    \cup (IF _has_field(environmental_data, "hact")
       THEN {"HUMIDITY_SENSOR"} ELSE {})
    \cup (IF _has_field(environmental_data, "tact")
       THEN {"TEMPERATURE_SENSOR"} ELSE {}))

AdvancedEnvironmentalDetector_get_required_fields ==
  {"va10", "noxl", "co2r", "hact", "tact"}

\* Faulty variant of AdvancedEnvironmentalDetector_get_confidence_score: the
\* count runs over the five fields the detector reads, humidity and temperature
\* included.
AdvancedEnvironmentalDetector_confidence_all_fields(status_data, environmental_data) ==
  IF TypeError(environmental_data) THEN Raised
  ELSE LET detected_count ==
             Cardinality({field \in advanced_fields \cup {"hact", "tact"} :
                            _has_field(environmental_data, field)})
       IN Return(Rat(detected_count, 5))

AdvancedEnvironmentalDetector_get_confidence_score(status_data, environmental_data) ==
  IF TypeError(environmental_data) THEN Raised
  ELSE LET detected_count ==
             Cardinality({field \in advanced_fields :
                            _has_field(environmental_data, field)})
       IN Return(Rat(detected_count, Cardinality(advanced_fields)))

\* Faulty variant of HeatingDetector_detect: hmod is looked up in both maps.
HeatingDetector_detect_any_map(status_data, environmental_data) ==
  IF TypeError(status_data) \/ TypeError(environmental_data) THEN Raised
  ELSE Return(IF _has_field(status_data, "hmod")
                 \/ _has_field(environmental_data, "hmod")
                THEN {"HEATING"} ELSE {})

HeatingDetector_detect(status_data, environmental_data) ==
  IF TypeError(status_data) THEN Raised
  ELSE Return(IF _has_field(status_data, "hmod") THEN {"HEATING"} ELSE {})

HeatingDetector_get_required_fields == {"hmod", "hmax"}

HeatingDetector_get_confidence_score(status_data, environmental_data) ==
  IF TypeError(status_data) THEN Raised
  ELSE IF _has_field(status_data, "hmod") THEN Return(One) ELSE Return(Zero)

HumidificationDetector_detect(status_data, environmental_data) ==
  IF TypeError(status_data) THEN Raised
  ELSE Return(
    (IF _has_field(status_data, "hume") THEN {"HUMIDIFICATION"} ELSE {})
    \cup (IF _has_field(status_data, "wath") THEN {"WATER_HARDNESS"} ELSE {}))

\* Faulty variant of HumidificationDetector_get_required_fields: wath is missing
\* from the manifest.
HumidificationDetector_required_fields_without_wath == {"hume", "haut", "humt"}

HumidificationDetector_get_required_fields == {"hume", "haut", "humt", "wath"}

HumidificationDetector_get_confidence_score(status_data, environmental_data) ==
  IF TypeError(status_data) THEN Raised
  ELSE IF _has_field(status_data, "hume") THEN Return(One) ELSE Return(Zero)

\* ------------------------------------------------------------ discovery

\* self.detectors, in the declared order
detectors ==
  << "BasicFanDetector", "AdvancedOscillationDetector", "PurificationDetector",
     "AdvancedEnvironmentalDetector", "HeatingDetector",
     "HumidificationDetector" >>

\* detector.detect(status_data, environmental_data).  CapabilityDetector is an
\* abstract class: next to the six shipped detectors the dispatch knows two
\* implementations that raise, one from its detect step and one, having
\* reported a tag, from its confidence step.
detect(detector, status_data, environmental_data) ==
  CASE detector = "BasicFanDetector" ->
         BasicFanDetector_detect(status_data, environmental_data)
    [] detector = "AdvancedOscillationDetector" ->
         AdvancedOscillationDetector_detect(status_data, environmental_data)
    [] detector = "PurificationDetector" ->
         PurificationDetector_detect(status_data, environmental_data)
    [] detector = "AdvancedEnvironmentalDetector" ->
         AdvancedEnvironmentalDetector_detect(status_data, environmental_data)
    [] detector = "HeatingDetector" ->
         HeatingDetector_detect(status_data, environmental_data)
    [] detector = "HumidificationDetector" ->
         HumidificationDetector_detect(status_data, environmental_data)
    [] detector = "RaisingDetectDetector" -> Raised
    [] detector = "RaisingConfidenceDetector" -> Return({"TILT_CONTROL"})

\* detector.get_confidence_score(status_data, environmental_data)
get_confidence_score(detector, status_data, environmental_data) ==
  CASE detector = "BasicFanDetector" ->
         BasicFanDetector_get_confidence_score(status_data, environmental_data)
    [] detector = "AdvancedOscillationDetector" ->
         AdvancedOscillationDetector_get_confidence_score(status_data, environmental_data)
    [] detector = "PurificationDetector" ->
         PurificationDetector_get_confidence_score(status_data, environmental_data)
    [] detector = "AdvancedEnvironmentalDetector" ->
         AdvancedEnvironmentalDetector_get_confidence_score(status_data, environmental_data)
    [] detector = "HeatingDetector" ->
         HeatingDetector_get_confidence_score(status_data, environmental_data)
    [] detector = "HumidificationDetector" ->
         HumidificationDetector_get_confidence_score(status_data, environmental_data)
    [] detector = "RaisingDetectDetector" -> Return(One)
    [] detector = "RaisingConfidenceDetector" -> Raised

\* detector.get_required_fields()
get_required_fields(detector) ==
  CASE detector = "BasicFanDetector" -> BasicFanDetector_get_required_fields
    [] detector = "AdvancedOscillationDetector" ->
         AdvancedOscillationDetector_get_required_fields
    [] detector = "PurificationDetector" -> PurificationDetector_get_required_fields
    [] detector = "AdvancedEnvironmentalDetector" ->
         AdvancedEnvironmentalDetector_get_required_fields
    [] detector = "HeatingDetector" -> HeatingDetector_get_required_fields
    [] detector = "HumidificationDetector" ->
         HumidificationDetector_get_required_fields
    [] OTHER -> {}

\* bool(data): None and {} are falsy.
Truthy(data) == data # NoneDict /\ DOMAIN data # {}

\* data or {}
OrEmpty(data) == IF Truthy(data) THEN data ELSE EmptyDict

\* Faulty variant of KeysOf: keys whose value is null are left out.
KeysOf_non_null(data) ==
  IF Truthy(data) THEN { k \in DOMAIN data : data[k] # None } ELSE {}

\* set(data.keys()) if data else set()
KeysOf(data) == IF Truthy(data) THEN DOMAIN data ELSE {}

\* Faulty variant of RunDetector: the tags of a detector are kept only when its
\* confidence is above 0.
RunDetector_confident_only(acc, detector, status_data, environmental_data) ==
  CHOOSE next \in
    { IF capabilities.raised \/ confidence.raised THEN a
      ELSE [ detector_results |->
               Append(a.detector_results,
                      [ detector |-> detector,
                        capabilities |-> capabilities.value,
                        confidence |-> confidence.value,
                        is_relevant |-> Cardinality(capabilities.value) > 0
                                        \/ RatLT(Zero, confidence.value) ]),
             all_capabilities |->
               IF RatLT(Zero, confidence.value)
                 THEN a.all_capabilities \cup capabilities.value
                 ELSE a.all_capabilities ] :
      a \in {acc},
      capabilities \in {detect(detector, status_data, environmental_data)},
      confidence \in
        {get_confidence_score(detector, status_data, environmental_data)} } : TRUE

\* Faulty variant of RunDetector: all_capabilities is updated as soon as detect
\* has returned, before get_confidence_score is called.
RunDetector_update_before_confidence(acc, detector, status_data, environmental_data) ==
  CHOOSE next \in
    { IF capabilities.raised THEN a
      ELSE IF confidence.raised
        THEN [a EXCEPT !.all_capabilities = @ \cup capabilities.value]
      ELSE [ detector_results |->
               Append(a.detector_results,
                      [ detector |-> detector,
                        capabilities |-> capabilities.value,
                        confidence |-> confidence.value,
                        is_relevant |-> Cardinality(capabilities.value) > 0
                                        \/ RatLT(Zero, confidence.value) ]),
             all_capabilities |->
               a.all_capabilities \cup capabilities.value ] :
      a \in {acc},
      capabilities \in {detect(detector, status_data, environmental_data)},
      confidence \in
        {get_confidence_score(detector, status_data, environmental_data)} } : TRUE

\* One pass of the loop body: the try block appends the detector's result and
\* updates all_capabilities only when detect and get_confidence_score both
\* returned; the except block logs and goes on.
RunDetector(acc, detector, status_data, environmental_data) ==
  CHOOSE next \in
    { IF capabilities.raised \/ confidence.raised THEN a
      ELSE [ detector_results |->
               Append(a.detector_results,
                      [ detector |-> detector,
                        capabilities |-> capabilities.value,
                        confidence |-> confidence.value,
                        is_relevant |-> Cardinality(capabilities.value) > 0
                                        \/ RatLT(Zero, confidence.value) ]),
             all_capabilities |->
               a.all_capabilities \cup capabilities.value ] :
      a \in {acc},
      capabilities \in {detect(detector, status_data, environmental_data)},
      confidence \in
        {get_confidence_score(detector, status_data, environmental_data)} } : TRUE

\* for detector in self.detectors: ...   (detectors i..Len)
RECURSIVE RunDetectors(_, _, _, _)
RunDetectors(acc, i, status_data, environmental_data) ==
  IF i > Len(detectors) THEN acc
  ELSE RunDetectors(RunDetector(acc, detectors[i], status_data, environmental_data),
                    i + 1, status_data, environmental_data)

\* Faulty variant of _suggest_device_type: the basic-purifier rule asks for AUTO_MODE and
\* FILTER_MONITORING together.
_suggest_device_type_auto_and_filter(capabilities) ==
  IF capabilities \cap {"VOC_SENSOR", "NO2_SENSOR", "CO2_SENSOR"} # {}
    THEN IF "HEATING" \in capabilities THEN "AdvancedPurifierFanWithHeating"
         ELSE IF "HUMIDIFICATION" \in capabilities
           THEN "AdvancedPurifierFanWithHumidification"
         ELSE "AdvancedPurifierFan"
  ELSE IF "HEATING" \in capabilities /\ "AUTO_MODE" \in capabilities
    THEN "BasicPurifierFanWithHeating"
  ELSE IF "HUMIDIFICATION" \in capabilities /\ "AUTO_MODE" \in capabilities
    THEN "BasicPurifierFanWithHumidification"
  ELSE IF {"AUTO_MODE", "FILTER_MONITORING"} \subseteq capabilities
    THEN IF "ANGLE_OSCILLATION" \in capabilities
           THEN "BasicPurifierFanWithOscillation"
           ELSE "BasicPurifierFan"
  ELSE IF "ANGLE_OSCILLATION" \in capabilities THEN "AdvancedOscillationFan"
  ELSE IF "BASIC_FAN_CONTROL" \in capabilities THEN "BasicFan"
  ELSE "UnknownDevice"

\* Faulty variant of _suggest_device_type: the rule for BASIC_FAN_CONTROL is
\* missing.
_suggest_device_type_without_basic_fan(capabilities) ==
  IF capabilities \cap {"VOC_SENSOR", "NO2_SENSOR", "CO2_SENSOR"} # {}
    THEN IF "HEATING" \in capabilities THEN "AdvancedPurifierFanWithHeating"
         ELSE IF "HUMIDIFICATION" \in capabilities
           THEN "AdvancedPurifierFanWithHumidification"
         ELSE "AdvancedPurifierFan"
  ELSE IF "HEATING" \in capabilities /\ "AUTO_MODE" \in capabilities
    THEN "BasicPurifierFanWithHeating"
  ELSE IF "HUMIDIFICATION" \in capabilities /\ "AUTO_MODE" \in capabilities
    THEN "BasicPurifierFanWithHumidification"
  ELSE IF capabilities \cap {"AUTO_MODE", "FILTER_MONITORING"} # {}
    THEN IF "ANGLE_OSCILLATION" \in capabilities
           THEN "BasicPurifierFanWithOscillation"
           ELSE "BasicPurifierFan"
  ELSE IF "ANGLE_OSCILLATION" \in capabilities THEN "AdvancedOscillationFan"
  ELSE "UnknownDevice"

_suggest_device_type(capabilities) ==
  IF capabilities \cap {"VOC_SENSOR", "NO2_SENSOR", "CO2_SENSOR"} # {}
    THEN IF "HEATING" \in capabilities THEN "AdvancedPurifierFanWithHeating"
         ELSE IF "HUMIDIFICATION" \in capabilities
           THEN "AdvancedPurifierFanWithHumidification"
         ELSE "AdvancedPurifierFan"
  ELSE IF "HEATING" \in capabilities /\ "AUTO_MODE" \in capabilities
    THEN "BasicPurifierFanWithHeating"
  ELSE IF "HUMIDIFICATION" \in capabilities /\ "AUTO_MODE" \in capabilities
    THEN "BasicPurifierFanWithHumidification"
  ELSE IF capabilities \cap {"AUTO_MODE", "FILTER_MONITORING"} # {}
    THEN IF "ANGLE_OSCILLATION" \in capabilities
           THEN "BasicPurifierFanWithOscillation"
           ELSE "BasicPurifierFan"
  ELSE IF "ANGLE_OSCILLATION" \in capabilities THEN "AdvancedOscillationFan"
  ELSE IF "BASIC_FAN_CONTROL" \in capabilities THEN "BasicFan"
  ELSE "UnknownDevice"

\* Faulty variant of _calculate_coherence_bonus: one advanced sensor is enough
\* for the sensor rule.
_calculate_coherence_bonus_one_sensor(capabilities) ==
  LET b1 == IF {"BASIC_FAN_CONTROL", "BASIC_OSCILLATION"} \subseteq capabilities
              THEN RatAdd(Zero, Rat(1, 10)) ELSE Zero
      b2 == IF {"AUTO_MODE", "FILTER_MONITORING", "PM_SENSORS"} \subseteq capabilities
              THEN RatAdd(b1, Rat(15, 100)) ELSE b1
      advanced_sensors == {"VOC_SENSOR", "NO2_SENSOR", "CO2_SENSOR"}
      b3 == IF Cardinality(advanced_sensors \cap capabilities) >= 1
              THEN RatAdd(b2, Rat(2, 10)) ELSE b2
      b4 == IF "HEATING" \in capabilities /\ "AUTO_MODE" \in capabilities
              THEN RatAdd(b3, Rat(15, 100)) ELSE b3
      b5 == IF "HUMIDIFICATION" \in capabilities /\ "HUMIDITY_SENSOR" \in capabilities
              THEN RatAdd(b4, Rat(15, 100)) ELSE b4
      b6 == IF "ANGLE_OSCILLATION" \in capabilities /\ "AUTO_MODE" \notin capabilities
              THEN RatAdd(b5, Rat(2, 10)) ELSE b5
      b7 == IF {"HUMIDITY_SENSOR", "TEMPERATURE_SENSOR"} \subseteq capabilities
              THEN RatAdd(b6, Rat(1, 10)) ELSE b6
  IN RatMin(Rat(3, 10), b7)

_calculate_coherence_bonus(capabilities) ==
  LET b1 == IF {"BASIC_FAN_CONTROL", "BASIC_OSCILLATION"} \subseteq capabilities
              THEN RatAdd(Zero, Rat(1, 10)) ELSE Zero
      b2 == IF {"AUTO_MODE", "FILTER_MONITORING", "PM_SENSORS"} \subseteq capabilities
              THEN RatAdd(b1, Rat(15, 100)) ELSE b1
      advanced_sensors == {"VOC_SENSOR", "NO2_SENSOR", "CO2_SENSOR"}
      b3 == IF Cardinality(advanced_sensors \cap capabilities) >= 2
              THEN RatAdd(b2, Rat(2, 10)) ELSE b2
      b4 == IF "HEATING" \in capabilities /\ "AUTO_MODE" \in capabilities
              THEN RatAdd(b3, Rat(15, 100)) ELSE b3
      b5 == IF "HUMIDIFICATION" \in capabilities /\ "HUMIDITY_SENSOR" \in capabilities
              THEN RatAdd(b4, Rat(15, 100)) ELSE b4
      b6 == IF "ANGLE_OSCILLATION" \in capabilities /\ "AUTO_MODE" \notin capabilities
              THEN RatAdd(b5, Rat(2, 10)) ELSE b5
      b7 == IF {"HUMIDITY_SENSOR", "TEMPERATURE_SENSOR"} \subseteq capabilities
              THEN RatAdd(b6, Rat(1, 10)) ELSE b6
  IN RatMin(Rat(3, 10), b7)

\* Faulty variant of DetectorWeight: a detector that found no tag weighs as much
\* as one that found some.
DetectorWeight_flat(result) ==
  LET detector_name == result.detector
  IN IF detector_name \in {"BasicFanDetector", "PurificationDetector"}
       THEN Rat(3, 1)
     ELSE IF detector_name \in {"AdvancedOscillationDetector",
                                "AdvancedEnvironmentalDetector"}
       THEN Rat(5, 2)
     ELSE IF detector_name \in {"HeatingDetector", "HumidificationDetector"}
       THEN Rat(2, 1)
     ELSE Rat(1, 1)

\* The weight of one relevant result.
DetectorWeight(result) ==
  LET detector_name == result.detector
      capabilities_found == Cardinality(result.capabilities)
  IN IF detector_name = "BasicFanDetector"
       THEN IF capabilities_found > 0 THEN Rat(3, 1) ELSE Rat(1, 1)
     ELSE IF detector_name = "AdvancedOscillationDetector"
       THEN IF capabilities_found > 0 THEN Rat(5, 2) ELSE Rat(1, 2)
     ELSE IF detector_name = "PurificationDetector"
       THEN IF capabilities_found > 0 THEN Rat(3, 1) ELSE Rat(1, 1)
     ELSE IF detector_name = "AdvancedEnvironmentalDetector"
       THEN IF capabilities_found > 0 THEN Rat(5, 2) ELSE Rat(1, 2)
     ELSE IF detector_name \in {"HeatingDetector", "HumidificationDetector"}
       THEN IF capabilities_found > 0 THEN Rat(2, 1) ELSE Rat(1, 2)
     ELSE Rat(1, 1)

\* for result in relevant_results: the two running sums (results i..Len)
RECURSIVE WeightedSums(_, _, _)
WeightedSums(relevant_results, i, acc) ==
  IF i > Len(relevant_results) THEN acc
  ELSE WeightedSums(relevant_results, i + 1,
         CHOOSE next \in
           { [ total_weighted_confidence |->
                 RatAdd(a.total_weighted_confidence,
                        RatMul(result.confidence, weight)),
               total_weight |-> RatAdd(a.total_weight, weight) ] :
             a \in {acc}, result \in {relevant_results[i]},
             weight \in {DetectorWeight(relevant_results[i])} } : TRUE)

\* [r for r in results if r["is_relevant"]]
RelevantResults(detector_results) ==
  SelectSeq(detector_results, LAMBDA r : r.is_relevant)

\* Faulty variant of FinalConfidence: the sum is not clamped.
FinalConfidence_unclamped(base_confidence, coherence_bonus) ==
  RatAdd(base_confidence, coherence_bonus)

\* base_confidence + coherence_bonus, clamped
FinalConfidence(base_confidence, coherence_bonus) ==
  RatMin(One, RatAdd(base_confidence, coherence_bonus))

_calculate_intelligent_confidence(detector_results, all_capabilities) ==
  IF Len(detector_results) = 0 THEN Zero
  ELSE CHOOSE final_confidence \in
    { IF Len(relevant_results) = 0 THEN Zero
      ELSE CHOOSE c \in
        { FinalConfidence(
            IF RatLT(Zero, sums.total_weight)
              THEN RatDiv(sums.total_weighted_confidence, sums.total_weight)
              ELSE Zero,
            _calculate_coherence_bonus(all_capabilities)) :
          sums \in { WeightedSums(relevant_results, 1,
                       [ total_weighted_confidence |-> Zero,
                         total_weight |-> Zero ]) } } : TRUE :
      relevant_results \in {RelevantResults(detector_results)} } : TRUE

\* The loop of discover_capabilities: detector_results and all_capabilities.
DetectorLoop(status_data, environmental_data) ==
  RunDetectors([detector_results |-> << >>, all_capabilities |-> {}],
               1, status_data, environmental_data)

discover_capabilities(status_data, environmental_data) ==
  CHOOSE result \in
    { [ discovered_capabilities |-> loop.all_capabilities,
        status_fields |-> KeysOf(status_data),
        environmental_fields |-> KeysOf(environmental_data),
        device_type_hint |-> _suggest_device_type(loop.all_capabilities),
        confidence_score |->
          _calculate_intelligent_confidence(loop.detector_results,
                                            loop.all_capabilities) ] :
      loop \in {DetectorLoop(status_data, environmental_data)} } : TRUE

\* ------------------------------------------------------------ factory

\* Python's None returned in place of a device.
NoneDevice == [class |-> "NoneType"]

\* Class(serial, credential, device_type): serial and credential are only
\* stored by the constructor.
NewDevice(class, device_type) == [class |-> class, _device_type |-> device_type]

\* capabilities.has_capability(capability)
has_capability(capabilities, capability) ==
  capability \in capabilities.discovered_capabilities

\* Faulty variant of has_any_capability: every listed capability is required.
has_all_capabilities(capabilities, list) ==
  list \subseteq capabilities.discovered_capabilities

\* capabilities.has_any_capability(list)
has_any_capability(capabilities, list) ==
  capabilities.discovered_capabilities \cap list # {}

\* Faulty variant of _create_device_from_capabilities: the angle-oscillation rule does not
\* ask for the absence of AUTO_MODE.
_create_device_angle_with_auto(device_type, capabilities) ==
  IF has_any_capability(capabilities, {"VOC_SENSOR", "NO2_SENSOR", "CO2_SENSOR"})
    THEN NewDevice("DysonAdvancedPurifierFan", device_type)
  ELSE IF /\ has_capability(capabilities, "AUTO_MODE")
          /\ has_capability(capabilities, "FILTER_MONITORING")
          /\ has_capability(capabilities, "HEATING")
    THEN NewDevice("DysonBasicPurifierFanWithHeating", device_type)
  ELSE IF /\ has_capability(capabilities, "AUTO_MODE")
          /\ has_capability(capabilities, "FILTER_MONITORING")
          /\ has_capability(capabilities, "HUMIDIFICATION")
    THEN NewDevice("DysonBasicPurifierFanWithHumidification", device_type)
  ELSE IF /\ has_capability(capabilities, "AUTO_MODE")
          /\ has_capability(capabilities, "FILTER_MONITORING")
    THEN NewDevice("DysonBasicPurifierFanWithOscillation", device_type)
  ELSE IF has_capability(capabilities, "ANGLE_OSCILLATION")
    THEN NewDevice("DysonAdvancedOscillationFan", device_type)
  ELSE IF has_capability(capabilities, "BASIC_FAN_CONTROL")
    THEN NewDevice("DysonBasicFan", device_type)
  ELSE NoneDevice

\* Faulty variant of _create_device_from_capabilities: the basic-purifier rule
\* accepts AUTO_MODE or FILTER_MONITORING, as the hint classifier does.
_create_device_auto_or_filter(device_type, capabilities) ==
  IF has_any_capability(capabilities, {"VOC_SENSOR", "NO2_SENSOR", "CO2_SENSOR"})
    THEN NewDevice("DysonAdvancedPurifierFan", device_type)
  ELSE IF /\ has_capability(capabilities, "AUTO_MODE")
          /\ has_capability(capabilities, "FILTER_MONITORING")
          /\ has_capability(capabilities, "HEATING")
    THEN NewDevice("DysonBasicPurifierFanWithHeating", device_type)
  ELSE IF /\ has_capability(capabilities, "AUTO_MODE")
          /\ has_capability(capabilities, "FILTER_MONITORING")
          /\ has_capability(capabilities, "HUMIDIFICATION")
    THEN NewDevice("DysonBasicPurifierFanWithHumidification", device_type)
  ELSE IF has_any_capability(capabilities, {"AUTO_MODE", "FILTER_MONITORING"})
    THEN NewDevice("DysonBasicPurifierFanWithOscillation", device_type)
  ELSE IF /\ has_capability(capabilities, "ANGLE_OSCILLATION")
          /\ ~has_capability(capabilities, "AUTO_MODE")
    THEN NewDevice("DysonAdvancedOscillationFan", device_type)
  ELSE IF has_capability(capabilities, "BASIC_FAN_CONTROL")
    THEN NewDevice("DysonBasicFan", device_type)
  ELSE NoneDevice

\* Faulty variant of _create_device_from_capabilities: a device type of the
\* 438 family is trusted over the discovered tags.
_create_device_trusting_type(device_type, capabilities) ==
  IF Len(device_type) >= 3 /\ SubSeq(device_type, 1, 3) = << "4", "3", "8" >>
    THEN NewDevice("DysonBasicPurifierFanWithOscillation", device_type)
  ELSE IF has_any_capability(capabilities, {"VOC_SENSOR", "NO2_SENSOR", "CO2_SENSOR"})
    THEN NewDevice("DysonAdvancedPurifierFan", device_type)
  ELSE IF /\ has_capability(capabilities, "AUTO_MODE")
          /\ has_capability(capabilities, "FILTER_MONITORING")
          /\ has_capability(capabilities, "HEATING")
    THEN NewDevice("DysonBasicPurifierFanWithHeating", device_type)
  ELSE IF /\ has_capability(capabilities, "AUTO_MODE")
          /\ has_capability(capabilities, "FILTER_MONITORING")
          /\ has_capability(capabilities, "HUMIDIFICATION")
    THEN NewDevice("DysonBasicPurifierFanWithHumidification", device_type)
  ELSE IF /\ has_capability(capabilities, "AUTO_MODE")
          /\ has_capability(capabilities, "FILTER_MONITORING")
    THEN NewDevice("DysonBasicPurifierFanWithOscillation", device_type)
  ELSE IF /\ has_capability(capabilities, "ANGLE_OSCILLATION")
          /\ ~has_capability(capabilities, "AUTO_MODE")
    THEN NewDevice("DysonAdvancedOscillationFan", device_type)
  ELSE IF has_capability(capabilities, "BASIC_FAN_CONTROL")
    THEN NewDevice("DysonBasicFan", device_type)
  ELSE NoneDevice

_create_device_from_capabilities(device_type, capabilities) ==
  IF has_any_capability(capabilities, {"VOC_SENSOR", "NO2_SENSOR", "CO2_SENSOR"})
    THEN NewDevice("DysonAdvancedPurifierFan", device_type)
  ELSE IF /\ has_capability(capabilities, "AUTO_MODE")
          /\ has_capability(capabilities, "FILTER_MONITORING")
          /\ has_capability(capabilities, "HEATING")
    THEN NewDevice("DysonBasicPurifierFanWithHeating", device_type)
  ELSE IF /\ has_capability(capabilities, "AUTO_MODE")
          /\ has_capability(capabilities, "FILTER_MONITORING")
          /\ has_capability(capabilities, "HUMIDIFICATION")
    THEN NewDevice("DysonBasicPurifierFanWithHumidification", device_type)
  ELSE IF /\ has_capability(capabilities, "AUTO_MODE")
          /\ has_capability(capabilities, "FILTER_MONITORING")
    THEN NewDevice("DysonBasicPurifierFanWithOscillation", device_type)
  ELSE IF /\ has_capability(capabilities, "ANGLE_OSCILLATION")
          /\ ~has_capability(capabilities, "AUTO_MODE")
    THEN NewDevice("DysonAdvancedOscillationFan", device_type)
  ELSE IF has_capability(capabilities, "BASIC_FAN_CONTROL")
    THEN NewDevice("DysonBasicFan", device_type)
  ELSE NoneDevice

\* Faulty variant of startswith: the whole string is compared.
startswith_whole_string(str, prefix) == str = prefix

\* str.startswith
startswith(str, prefix) ==
  Len(str) >= Len(prefix) /\ SubSeq(str, 1, Len(prefix)) = prefix

_fallback_to_static_mapping(device_type) ==
  IF startswith(device_type, <<"7", "3", "9">>)
    THEN NewDevice("DysonAdvancedOscillationFan", device_type)
  ELSE IF startswith(device_type, <<"4", "3", "8">>)
    THEN NewDevice("DysonBasicPurifierFanWithOscillation", device_type)
  ELSE IF startswith(device_type, <<"5", "2", "7">>)
    THEN NewDevice("DysonBasicPurifierFanWithHeating", device_type)
  ELSE IF startswith(device_type, <<"3", "5", "8">>)
    THEN NewDevice("DysonBasicPurifierFanWithHumidification", device_type)
  ELSE IF startswith(device_type, <<"6", "6", "4">>)
    THEN NewDevice("DysonAdvancedPurifierFan", device_type)
  ELSE NoneDevice

\* Faulty variant of SetDiscoveredCapabilities: the attribute is not stored.
SetDiscoveredCapabilities_skipped(device_instance, capabilities) == device_instance

\* device_instance._discovered_capabilities = capabilities
SetDiscoveredCapabilities(device_instance, capabilities) ==
  [ class |-> device_instance.class,
    _device_type |-> device_instance._device_type,
    _discovered_capabilities |-> capabilities ]

\* Faulty variant of NoData: the maps are tested against None instead of for truth.
NoData_is_none(status_data, environmental_data) ==
  status_data = NoneDict /\ environmental_data = NoneDict

\* The guard of the first return: there is no data to analyze.
NoData(status_data, environmental_data) ==
  ~Truthy(status_data) /\ ~Truthy(environmental_data)

\* Faulty variant of create_device_from_capabilities: a selection without a match is
\* returned as it is, without the static fallback.
create_device_without_fallback(device_type, status_data, environmental_data) ==
  IF NoData(status_data, environmental_data)
    THEN [ device_instance |-> _fallback_to_static_mapping(device_type),
           calls |-> << "_fallback_to_static_mapping" >> ]
  ELSE CHOOSE result \in
    { LET device_instance ==
            _create_device_from_capabilities(device_type, capabilities)
      IN IF device_instance # NoneDevice
           THEN [ device_instance |->
                    SetDiscoveredCapabilities(device_instance, capabilities),
                  calls |-> << "discover_capabilities",
                               "_create_device_from_capabilities" >> ]
           ELSE [ device_instance |-> NoneDevice,
                  calls |-> << "discover_capabilities",
                               "_create_device_from_capabilities" >> ] :
      capabilities \in
        { discover_capabilities(OrEmpty(status_data),
                                OrEmpty(environmental_data)) } } : TRUE

\* The returned device and the functions called on the way, in order.
create_device_from_capabilities(device_type, status_data, environmental_data) ==
  IF NoData(status_data, environmental_data)
    THEN [ device_instance |-> _fallback_to_static_mapping(device_type),
           calls |-> << "_fallback_to_static_mapping" >> ]
  ELSE CHOOSE result \in
    { LET device_instance ==
            _create_device_from_capabilities(device_type, capabilities)
      IN IF device_instance # NoneDevice
           THEN [ device_instance |->
                    SetDiscoveredCapabilities(device_instance, capabilities),
                  calls |-> << "discover_capabilities",
                               "_create_device_from_capabilities" >> ]
           ELSE [ device_instance |-> _fallback_to_static_mapping(device_type),
                  calls |-> << "discover_capabilities",
                               "_create_device_from_capabilities",
                               "_fallback_to_static_mapping" >> ] :
      capabilities \in
        { discover_capabilities(OrEmpty(status_data),
                                OrEmpty(environmental_data)) } } : TRUE

\* hasattr(device, "_discovered_capabilities")
hasattr_discovered_capabilities(device) ==
  "_discovered_capabilities" \in DOMAIN device

get_device_capabilities_summary(device) ==
  IF hasattr_discovered_capabilities(device)
    THEN LET caps == device._discovered_capabilities
         IN [ device_class |-> device.class,
              capabilities |-> caps.discovered_capabilities,
              confidence_score |-> caps.confidence_score,
              suggested_type |-> caps.device_type_hint,
              status_fields |-> caps.status_fields,
              environmental_fields |-> caps.environmental_fields ]
    ELSE [ device_class |-> device.class,
           capabilities |-> "Static mapping used",
           note |-> "Device created without capability discovery" ]

\* ------------------------------------------------------------ get_device

\* const.py: the device-type codes get_device compares with
DEVICE_TYPE_360_EYE == << "N", "2", "2", "3" >>
DEVICE_TYPE_360_HEURIST == << "2", "7", "6" >>
DEVICE_TYPE_360_VIS_NAV == << "2", "7", "7" >>
DEVICE_TYPE_PURE_COOL_LINK == << "4", "7", "5" >>
DEVICE_TYPE_PURE_COOL_LINK_DESK == << "4", "6", "9" >>
DEVICE_TYPE_PURE_HOT_COOL_LINK == << "4", "5", "5" >>

\* A device_type argument that is None and not a string.
NoneStr == << None >>

\* The module-level entry of the dynamic factory. A device_type that is not a
\* string raises AttributeError where the static mapping of the factory calls
\* device_type.startswith.
get_device_with_capability_discovery(device_type, status_data, environmental_data) ==
  CHOOSE result \in
    { IF device_type = NoneStr
           /\ \E i \in 1..Len(created.calls) :
                created.calls[i] = "_fallback_to_static_mapping"
        THEN Raised
        ELSE Return(created.device_instance) :
      created \in { create_device_from_capabilities(device_type, status_data,
                                                    environmental_data) } } : TRUE

_create_device_static(device_type) ==
  IF device_type = DEVICE_TYPE_360_EYE
    THEN NewDevice("Dyson360Eye", device_type)
  ELSE IF device_type = DEVICE_TYPE_360_HEURIST
    THEN NewDevice("Dyson360Heurist", device_type)
  ELSE IF device_type = DEVICE_TYPE_360_VIS_NAV
    THEN NewDevice("Dyson360VisNav", device_type)
  ELSE IF device_type \in {DEVICE_TYPE_PURE_COOL_LINK_DESK, DEVICE_TYPE_PURE_COOL_LINK}
    THEN NewDevice("DysonPureCoolLink", device_type)
  ELSE IF device_type = DEVICE_TYPE_PURE_HOT_COOL_LINK
    THEN NewDevice("DysonPureHotCoolLink", device_type)
  ELSE NoneDevice

\* Faulty variant of TryDynamic: the call of the dynamic factory is not inside a
\* try block.
TryDynamic_without_except(device_type) ==
  CHOOSE outcome \in
    { IF dynamic_device.raised
        THEN [ pc |-> "raised", device_instance |-> NoneDevice ]
      ELSE IF dynamic_device.value # NoneDevice
        THEN [ pc |-> "returned", device_instance |-> dynamic_device.value ]
      ELSE [ pc |-> "static", device_instance |-> NoneDevice ] :
      dynamic_device \in
        { get_device_with_capability_discovery(device_type, NoneDict, NoneDict) }
    } : TRUE

\* The try block of get_device: where control goes next, and the device returned
\* from inside the block.
TryDynamic(device_type) ==
  CHOOSE outcome \in
    { IF dynamic_device.raised
        THEN [ pc |-> "static", device_instance |-> NoneDevice ]
      ELSE IF dynamic_device.value # NoneDevice
        THEN [ pc |-> "returned", device_instance |-> dynamic_device.value ]
      ELSE [ pc |-> "static", device_instance |-> NoneDevice ] :
      dynamic_device \in
        { get_device_with_capability_discovery(device_type, NoneDict, NoneDict) }
    } : TRUE

\* ------------------------------------------------------------ inputs

\* The status fields the detectors read.
StatusFields ==
  { "fpwr", "fnsp", "oson", "nmod", "nmdv", "sltm", "osal", "osau",
    "auto", "cflr", "hflr", "fdir", "hmod", "hume", "wath" }

\* The environmental fields the detectors read.
EnvironmentalFields ==
  { "p25r", "p10r", "pm25", "pm10", "va10", "noxl", "co2r", "hact", "tact" }

\* Fields the source names (manifests, comments of the enumeration) and no
\* detector reads.
OtherFields == { "ancp", "hmax", "humt", "tilt", "otau", "otal", "rhtm" }

\* Every key either map may hold.
Fields == StatusFields \cup EnvironmentalFields \cup OtherFields

\* A dict holding a value for each of the keys.
Telemetry(keys) == [k \in keys |-> "ON"]

\* The snapshots a call starts from: no data, the payloads of a basic fan, a
\* purifier with angle oscillation, a heating purifier, a sensor-only payload, a
\* humidifier, every field the detectors read, and calls that pass None.
Snapshots ==
  { << EmptyDict, EmptyDict >>,
    << Telemetry({"fpwr", "fnsp", "oson"}), EmptyDict >>,
    << Telemetry({"fpwr", "fnsp", "auto", "cflr", "hflr", "osal", "osau"}),
       Telemetry({"p25r"}) >>,
    << Telemetry({"hmod", "auto", "cflr"}), EmptyDict >>,
    << EmptyDict, Telemetry({"va10", "co2r"}) >>,
    << Telemetry({"fpwr", "fnsp", "auto", "cflr", "hume", "wath"}),
       Telemetry({"p25r", "hact", "tact"}) >>,
    << Telemetry(StatusFields), Telemetry(EnvironmentalFields) >>,
    << NoneDict, NoneDict >>,
    << EmptyDict, NoneDict >>,
    << Telemetry(StatusFields), NoneDict >>,
    << NoneDict, Telemetry(EnvironmentalFields) >> }

\* "438K", "527E", "664", "999"
DeviceTypes ==
  { << "4", "3", "8", "K" >>, << "5", "2", "7", "E" >>, << "6", "6", "4" >>,
    << "9", "9", "9" >> }

\* The characters of the static table's prefixes and of the regional suffixes.
Characters == { "2", "3", "4", "5", "6", "7", "8", "9", "K", "E" }

\* Every string of at most MaxTypeLen characters.
TypeStrings == UNION { [1..n -> Characters] : n \in 0..MaxTypeLen }

\* The tags the two decision lists read, and the others.
DecisionTags ==
  { "VOC_SENSOR", "NO2_SENSOR", "CO2_SENSOR", "HEATING", "HUMIDIFICATION",
    "AUTO_MODE", "FILTER_MONITORING", "ANGLE_OSCILLATION", "BASIC_FAN_CONTROL" }

OtherTags == DeviceCapability \ DecisionTags

\* Every set of decision tags with at most MaxOtherTags other tags.
TagSets ==
  { d \cup o : d \in SUBSET DecisionTags,
               o \in { x \in SUBSET OtherTags : Cardinality(x) <= MaxOtherTags } }

\* A DeviceCapabilities built around a tag set.
CapabilitiesOf(tags) ==
  [ discovered_capabilities |-> tags,
    status_fields |-> {},
    environmental_fields |-> {},
    device_type_hint |-> None,
    confidence_score |-> Zero ]

\* ------------------------------------------------------------ state

VARIABLES
  status_data,          \* the status map of the call
  environmental_data,   \* the environmental map of the call
  edits,                \* field changes applied to the snapshot so far
  device_type,          \* the device-type string of the call
  pc,                   \* which call has returned
  capabilities,         \* the DeviceCapabilities returned or examined
  device_type_hint,     \* the hint returned by _suggest_device_type
  device_instance,      \* the device returned (NoneDevice: None)
  calls,                \* the functions create_device_from_capabilities called
  self_detectors,       \* self.detectors of the shared discovery instance
  frames,               \* the arguments and local variables of each caller's call
  returned,             \* the (arguments, result) pairs of the calls that returned
  ncalls,               \* the number of calls started
  coherence_bonus       \* the value returned by _calculate_coherence_bonus

\* The variables of a single call followed from outside.
datavars ==
  << status_data, environmental_data, edits, device_type, pc, capabilities,
     device_type_hint, device_instance, calls, coherence_bonus >>

\* The variables of calls followed statement by statement.
callvars == << self_detectors, frames, returned, ncalls >>

vars ==
  << status_data, environmental_data, edits, device_type, pc, capabilities,
     device_type_hint, device_instance, calls,
     self_detectors, frames, returned, ncalls, coherence_bonus >>

\* Nothing has been computed yet.
NoCapabilities == CapabilitiesOf({})

\* The shared instance as constructed, and no call followed by statement.
NoCalls ==
  /\ self_detectors = detectors
  /\ frames = << >>
  /\ returned = {}
  /\ ncalls = 0

\* data[field] = value
SetItem(data, field, value) ==
  [k \in DOMAIN data \cup {field} |-> IF k = field THEN value ELSE data[k]]

\* del data[field]
DelItem(data, field) == [k \in DOMAIN data \ {field} |-> data[k]]

\* ------------------------------------------------------------ Spec: telemetry

Init ==
  /\ \E snapshot \in Snapshots :
       /\ status_data = snapshot[1]
       /\ environmental_data = snapshot[2]
  /\ edits = 0
  /\ device_type = << >>
  /\ pc = "input"
  /\ capabilities = NoCapabilities
  /\ device_type_hint = None
  /\ device_instance = NoneDevice
  /\ calls = << >>
  /\ coherence_bonus = Zero
  /\ NoCalls

\* The device reports a status field (possibly null).
SetStatusField(field, value) ==
  /\ pc = "input" /\ edits < MaxEdits
  /\ status_data # NoneDict
  /\ ~(field \in DOMAIN status_data /\ status_data[field] = value)
  /\ status_data' = SetItem(status_data, field, value)
  /\ edits' = edits + 1
  /\ UNCHANGED << environmental_data, device_type, pc, capabilities,
                  device_type_hint, device_instance, calls >>
  /\ UNCHANGED << callvars, coherence_bonus >>

\* A status field is missing from the payload.
DelStatusField(field) ==
  /\ pc = "input" /\ edits < MaxEdits
  /\ status_data # NoneDict
  /\ field \in DOMAIN status_data
  /\ status_data' = DelItem(status_data, field)
  /\ edits' = edits + 1
  /\ UNCHANGED << environmental_data, device_type, pc, capabilities,
                  device_type_hint, device_instance, calls >>
  /\ UNCHANGED << callvars, coherence_bonus >>

\* The device reports an environmental field (possibly null).
SetEnvironmentalField(field, value) ==
  /\ pc = "input" /\ edits < MaxEdits
  /\ environmental_data # NoneDict
  /\ ~(field \in DOMAIN environmental_data /\ environmental_data[field] = value)
  /\ environmental_data' = SetItem(environmental_data, field, value)
  /\ edits' = edits + 1
  /\ UNCHANGED << status_data, device_type, pc, capabilities,
                  device_type_hint, device_instance, calls >>
  /\ UNCHANGED << callvars, coherence_bonus >>

\* An environmental field is missing from the payload.
DelEnvironmentalField(field) ==
  /\ pc = "input" /\ edits < MaxEdits
  /\ environmental_data # NoneDict
  /\ field \in DOMAIN environmental_data
  /\ environmental_data' = DelItem(environmental_data, field)
  /\ edits' = edits + 1
  /\ UNCHANGED << status_data, device_type, pc, capabilities,
                  device_type_hint, device_instance, calls >>
  /\ UNCHANGED << callvars, coherence_bonus >>

\* discovery.discover_capabilities(status_data, environmental_data)
Discover ==
  /\ pc = "input"
  /\ capabilities' = discover_capabilities(status_data, environmental_data)
  /\ device_type_hint' = capabilities'.device_type_hint
  /\ pc' = "discovered"
  /\ UNCHANGED << status_data, environmental_data, edits, device_type,
                  device_instance, calls >>
  /\ UNCHANGED << callvars, coherence_bonus >>

\* factory.create_device_from_capabilities(serial, credential, type, status, env)
CreateDevice(type) ==
  /\ pc = "input"
  /\ device_type' = type
  /\ \E r \in {create_device_from_capabilities(type, status_data, environmental_data)} :
       /\ device_instance' = r.device_instance
       /\ calls' = r.calls
  /\ pc' = "created"
  /\ UNCHANGED << status_data, environmental_data, edits, capabilities,
                  device_type_hint >>
  /\ UNCHANGED << callvars, coherence_bonus >>

Next ==
  \/ \E field \in Fields, value \in Values : SetStatusField(field, value)
  \/ \E field \in Fields : DelStatusField(field)
  \/ \E field \in Fields, value \in Values : SetEnvironmentalField(field, value)
  \/ \E field \in Fields : DelEnvironmentalField(field)
  \/ Discover
  \/ \E type \in DeviceTypes : CreateDevice(type)

Spec == Init /\ [][Next]_vars

\* ------------------------------------------------------------ SpecTags: tag sets

InitTags ==
  /\ \E tags \in TagSets : capabilities = CapabilitiesOf(tags)
  /\ status_data = EmptyDict
  /\ environmental_data = EmptyDict
  /\ edits = 0
  /\ device_type = << "4", "3", "8" >>
  /\ pc = "tags"
  /\ device_type_hint = None
  /\ device_instance = NoneDevice
  /\ calls = << >>
  /\ coherence_bonus = Zero
  /\ NoCalls

\* discovery._suggest_device_type(capabilities.discovered_capabilities)
SuggestDeviceType ==
  /\ pc \in {"tags", "selected"}
  /\ device_type_hint' = _suggest_device_type(capabilities.discovered_capabilities)
  /\ pc' = IF pc = "tags" THEN "hinted" ELSE "both"
  /\ UNCHANGED << status_data, environmental_data, edits, device_type,
                  capabilities, device_instance, calls >>
  /\ UNCHANGED << callvars, coherence_bonus >>

\* factory._create_device_from_capabilities(serial, credential, type, capabilities)
SelectVariant ==
  /\ pc \in {"tags", "hinted"}
  /\ device_instance' = _create_device_from_capabilities(device_type, capabilities)
  /\ pc' = IF pc = "tags" THEN "selected" ELSE "both"
  /\ UNCHANGED << status_data, environmental_data, edits, device_type,
                  capabilities, device_type_hint, calls >>
  /\ UNCHANGED << callvars, coherence_bonus >>

NextTags == SuggestDeviceType \/ SelectVariant

SpecTags == InitTags /\ [][NextTags]_vars

\* ------------------------------------------------------------ SpecBonus: the
\* coherence bonus of a tag set

\* The tags the rules of _calculate_coherence_bonus look at.
BonusTags ==
  { "BASIC_FAN_CONTROL", "BASIC_OSCILLATION", "AUTO_MODE", "FILTER_MONITORING",
    "PM_SENSORS", "VOC_SENSOR", "NO2_SENSOR", "CO2_SENSOR", "HEATING",
    "HUMIDIFICATION", "HUMIDITY_SENSOR", "ANGLE_OSCILLATION",
    "TEMPERATURE_SENSOR" }

\* Every set of those tags, alone or with tags no rule looks at.
BonusTagSets ==
  { tags \cup other : tags \in SUBSET BonusTags,
                      other \in { {}, DeviceCapability \ BonusTags } }

InitBonus ==
  /\ \E tags \in BonusTagSets : capabilities = CapabilitiesOf(tags)
  /\ status_data = EmptyDict
  /\ environmental_data = EmptyDict
  /\ edits = 0
  /\ device_type = << >>
  /\ pc = "tags"
  /\ device_type_hint = None
  /\ device_instance = NoneDevice
  /\ calls = << >>
  /\ coherence_bonus = Zero
  /\ NoCalls

\* discovery._calculate_coherence_bonus(capabilities.discovered_capabilities)
CalculateCoherenceBonus ==
  /\ pc = "tags"
  /\ coherence_bonus' =
       _calculate_coherence_bonus(capabilities.discovered_capabilities)
  /\ pc' = "scored"
  /\ UNCHANGED << status_data, environmental_data, edits, device_type,
                  capabilities, device_type_hint, device_instance, calls >>
  /\ UNCHANGED callvars

NextBonus == CalculateCoherenceBonus

SpecBonus == InitBonus /\ [][NextBonus]_vars

\* ------------------------------------------------------------ SpecStatic: strings

InitStatic ==
  /\ device_type \in TypeStrings
  /\ status_data = EmptyDict
  /\ environmental_data = EmptyDict
  /\ edits = 0
  /\ pc = "type"
  /\ capabilities = NoCapabilities
  /\ device_type_hint = None
  /\ device_instance = NoneDevice
  /\ calls = << >>
  /\ coherence_bonus = Zero
  /\ NoCalls

\* factory._fallback_to_static_mapping(serial, credential, device_type)
StaticMapping ==
  /\ pc = "type"
  /\ device_instance' = _fallback_to_static_mapping(device_type)
  /\ calls' = << "_fallback_to_static_mapping" >>
  /\ pc' = "mapped"
  /\ UNCHANGED << status_data, environmental_data, edits, device_type,
                  capabilities, device_type_hint >>
  /\ UNCHANGED << callvars, coherence_bonus >>

NextStatic == StaticMapping

SpecStatic == InitStatic /\ [][NextStatic]_vars

\* ------------------------------------------------------------ SpecGetDevice:
\* get_device by statement

\* The device_type arguments: every short string, the code of the 360 Eye, and
\* None.
GetDeviceTypes == TypeStrings \cup {DEVICE_TYPE_360_EYE, NoneStr}

InitGetDevice ==
  /\ device_type \in GetDeviceTypes
  /\ status_data = NoneDict
  /\ environmental_data = NoneDict
  /\ edits = 0
  /\ pc = "get_device"
  /\ capabilities = NoCapabilities
  /\ device_type_hint = None
  /\ device_instance = NoneDevice
  /\ calls = << >>
  /\ coherence_bonus = Zero
  /\ NoCalls

\* if device_type in [DEVICE_TYPE_360_EYE, DEVICE_TYPE_360_HEURIST,
\*                    DEVICE_TYPE_360_VIS_NAV]
CheckVacuum ==
  /\ pc = "get_device"
  /\ pc' = IF device_type \in { DEVICE_TYPE_360_EYE, DEVICE_TYPE_360_HEURIST,
                                DEVICE_TYPE_360_VIS_NAV }
             THEN "static" ELSE "dynamic"
  /\ UNCHANGED << status_data, environmental_data, edits, device_type,
                  capabilities, device_type_hint, device_instance, calls >>
  /\ UNCHANGED << callvars, coherence_bonus >>

\* try: dynamic_device = get_device_with_capability_discovery(...)
CallDynamic ==
  /\ pc = "dynamic"
  /\ calls' = Append(calls, "get_device_with_capability_discovery")
  /\ \E outcome \in {TryDynamic(device_type)} :
       /\ pc' = outcome.pc
       /\ device_instance' = outcome.device_instance
  /\ UNCHANGED << status_data, environmental_data, edits, device_type,
                  capabilities, device_type_hint >>
  /\ UNCHANGED << callvars, coherence_bonus >>

\* return _create_device_static(serial, credential, device_type)
CallStatic ==
  /\ pc = "static"
  /\ calls' = Append(calls, "_create_device_static")
  /\ device_instance' = _create_device_static(device_type)
  /\ pc' = "returned"
  /\ UNCHANGED << status_data, environmental_data, edits, device_type,
                  capabilities, device_type_hint >>
  /\ UNCHANGED << callvars, coherence_bonus >>

NextGetDevice == CheckVacuum \/ CallDynamic \/ CallStatic

SpecGetDevice == InitGetDevice /\ [][NextGetDevice]_vars

\* ------------------------------------------------------------ SpecValues: the
\* values of the wire protocol

\* A JSON list is written as its text: the [previous, current] pairs of a
\* state-change message, one with a current element and one whose current
\* element is null.
Lists == {"[OFF, ON]", "[ON, None]"}

\* null, a flag, a number, and the pairs.
WireValues == Values \cup {"0030"} \cup Lists

\* isinstance(value, list)
isinstance_list(value) == value \in Lists

\* value[1] of a list
Item1(value) == IF value = "[OFF, ON]" THEN "ON" ELSE None

\* DysonBasicFan._get_field_value: the current element of a list, the value
\* itself otherwise, None for a missing key or a state that is None.
_get_field_value(state, field) ==
  IF state = NoneDict \/ field \notin DOMAIN state THEN None
  ELSE IF isinstance_list(state[field]) THEN Item1(state[field])
  ELSE state[field]

\* The fields the device classes read with int() or float().
NumberFields ==
  { "fnsp", "nmdv", "sltm", "osal", "osau", "cflr", "hflr",
    "p25r", "pm25", "p10r", "pm10", "hact", "tact" }

\* int(value) returns (value is not None).
int_returns(value) == value = "0030"

\* A payload with a well-formed value for each of the keys.
WireTelemetry(keys) ==
  [k \in keys |-> IF k \in NumberFields THEN "0030" ELSE "ON"]

\* The payloads the values are reported into: none, a heating purifier, and a
\* fan with angle oscillation and sensors.
ValueSnapshots ==
  { << EmptyDict, EmptyDict >>,
    << WireTelemetry({"hmod", "auto", "cflr"}), EmptyDict >>,
    << WireTelemetry({"fpwr", "fnsp", "osal", "osau"}),
       WireTelemetry({"va10", "tact", "p25r"}) >> }

InitValues ==
  /\ \E snapshot \in ValueSnapshots :
       /\ status_data = snapshot[1]
       /\ environmental_data = snapshot[2]
  /\ edits = 0
  /\ device_type = << >>
  /\ pc = "input"
  /\ capabilities = NoCapabilities
  /\ device_type_hint = None
  /\ device_instance = NoneDevice
  /\ calls = << >>
  /\ coherence_bonus = Zero
  /\ NoCalls

NextValues ==
  \/ \E field \in StatusFields, value \in WireValues : SetStatusField(field, value)
  \/ \E field \in EnvironmentalFields, value \in WireValues :
       SetEnvironmentalField(field, value)
  \/ Discover

SpecValues == InitValues /\ [][NextValues]_vars

\* ------------------------------------------------------------ calls by statement

\* The threads that call into the shared discovery and factory instances.
Callers == {1, 2}

\* The payloads the threads pass: a basic fan, a heating purifier whose
\* environmental map is None, no data, and a status map no rule selects on.
CallSnapshots ==
  { << Telemetry({"fpwr", "fnsp", "oson"}), EmptyDict >>,
    << Telemetry({"hmod", "auto", "cflr"}), NoneDict >>,
    << EmptyDict, EmptyDict >>,
    << Telemetry({"oson"}), EmptyDict >> }

\* list.insert(k - 1, detector)
InsertAt(list, k, detector) ==
  SubSeq(list, 1, k - 1) \o << detector >> \o SubSeq(list, k, Len(list))

\* The shipped detector list, and the list with a raising detector at any place.
DetectorLists ==
  {detectors} \cup
  { InsertAt(detectors, k, detector) :
      k \in 1..(Len(detectors) + 1),
      detector \in {"RaisingDetectDetector", "RaisingConfidenceDetector"} }

\* Faulty variant of FreshLocals: the accumulators are created once and kept
\* from call to call.
FreshLocals_kept(frame) == frame.loop

\* all_capabilities = set() ... detector_results = []
FreshLocals(frame) == [detector_results |-> << >>, all_capabilities |-> {}]

\* A caller outside any call.
IdleFrame ==
  [ kind |-> "none",
    status_data |-> EmptyDict,
    environmental_data |-> EmptyDict,
    passed |-> << EmptyDict, EmptyDict >>,
    device_type |-> << >>,
    pc |-> "idle",
    discover_args |-> << EmptyDict, EmptyDict >>,
    i |-> 1,
    loop |-> [detector_results |-> << >>, all_capabilities |-> {}],
    capabilities |-> NoCapabilities,
    device_instance |-> NoneDevice ]

\* The frame of a call entered with the maps of a snapshot: status_data and
\* environmental_data are the caller's objects, passed their content at the call.
EnterFrame(frame, kind, snapshot, type) ==
  [ kind |-> kind,
    status_data |-> snapshot[1],
    environmental_data |-> snapshot[2],
    passed |-> snapshot,
    device_type |-> type,
    pc |-> IF kind = "discover" THEN "loop" ELSE "guard",
    discover_args |-> snapshot,
    i |-> 1,
    loop |-> IF kind = "discover" THEN FreshLocals(frame) ELSE frame.loop,
    capabilities |-> NoCapabilities,
    device_instance |-> NoneDevice ]

\* if not status_data and not environmental_data: return fallback; otherwise
\* discover_capabilities(status_data or {}, environmental_data or {}) is entered.
GuardFrame(frame) ==
  IF NoData(frame.status_data, frame.environmental_data)
    THEN [ frame EXCEPT
             !.device_instance = _fallback_to_static_mapping(frame.device_type),
             !.pc = "done" ]
    ELSE [ frame EXCEPT
             !.discover_args = << OrEmpty(frame.status_data),
                                  OrEmpty(frame.environmental_data) >>,
             !.loop = FreshLocals(frame),
             !.i = 1,
             !.pc = "loop" ]

\* Faulty variant of Locals: the accumulators live on the shared instance, where
\* the first caller's are the ones every call reads.
Locals_on_instance(fs, c) == fs[1].loop

\* The accumulators a statement of caller c's call reads: its own locals.
Locals(fs, c) == fs[c].loop

\* Faulty variant of DetectorStepFrame: the detector takes the fields it reads out
\* of the status map (dict.pop instead of a lookup).
DetectorStepFrame_consuming(fs, c, detector) ==
  [ fs[c] EXCEPT
      !.loop = RunDetector(Locals(fs, c), detector,
                           fs[c].discover_args[1], fs[c].discover_args[2]),
      !.status_data =
        IF @ = NoneDict THEN @
        ELSE [k \in DOMAIN @ \ {"fpwr", "fnsp", "oson", "hmod"} |-> @[k]],
      !.i = @ + 1 ]

\* One pass of the loop for the detector at position i.
DetectorStepFrame(fs, c, detector) ==
  [ fs[c] EXCEPT
      !.loop = RunDetector(Locals(fs, c), detector,
                           fs[c].discover_args[1], fs[c].discover_args[2]),
      !.i = @ + 1 ]

\* After the loop: confidence, hint and the DeviceCapabilities returned.
FinishFrame(frame) ==
  [ frame EXCEPT
      !.capabilities =
        [ discovered_capabilities |-> frame.loop.all_capabilities,
          status_fields |-> KeysOf(frame.discover_args[1]),
          environmental_fields |-> KeysOf(frame.discover_args[2]),
          device_type_hint |-> _suggest_device_type(frame.loop.all_capabilities),
          confidence_score |->
            _calculate_intelligent_confidence(frame.loop.detector_results,
                                              frame.loop.all_capabilities) ],
      !.pc = IF frame.kind = "discover" THEN "done" ELSE "select" ]

\* device_instance = self._create_device_from_capabilities(...)
SelectFrame(frame) ==
  [ frame EXCEPT
      !.device_instance =
        _create_device_from_capabilities(frame.device_type, frame.capabilities),
      !.pc = IF _create_device_from_capabilities(frame.device_type,
                                                 frame.capabilities) # NoneDevice
               THEN "attach" ELSE "fallback" ]

\* device_instance._discovered_capabilities = capabilities; return
AttachFrame(frame) ==
  [ frame EXCEPT
      !.device_instance =
        SetDiscoveredCapabilities(frame.device_instance, frame.capabilities),
      !.pc = "done" ]

\* device_instance = self._fallback_to_static_mapping(...); return
FallbackFrame(frame) ==
  [ frame EXCEPT
      !.device_instance = _fallback_to_static_mapping(frame.device_type),
      !.pc = "done" ]

\* What a returned call is remembered by: its arguments as passed and its result.
Outcome(frame) ==
  [ kind |-> frame.kind,
    status_data |-> frame.passed[1],
    environmental_data |-> frame.passed[2],
    device_type |-> frame.device_type,
    capabilities |-> IF frame.kind = "discover" THEN frame.capabilities
                     ELSE NoCapabilities,
    device_instance |-> frame.device_instance ]

\* Caller c's call executes one statement and reaches the frame next.
Step(c, next) ==
  /\ frames' = [frames EXCEPT ![c] = next]
  /\ returned' = IF next.pc = "done" THEN returned \cup {Outcome(next)} ELSE returned
  /\ UNCHANGED << self_detectors, ncalls >>
  /\ UNCHANGED datavars

\* Caller c calls discovery.discover_capabilities(status_data, environmental_data).
CallDiscover(c, snapshot) ==
  /\ ncalls < MaxCalls
  /\ frames[c].pc \in {"idle", "done"}
  /\ frames' = [frames EXCEPT ![c] = EnterFrame(frames[c], "discover", snapshot, << >>)]
  /\ ncalls' = ncalls + 1
  /\ UNCHANGED << self_detectors, returned >>
  /\ UNCHANGED datavars

\* Caller c calls get_device_with_capability_discovery(serial, credential, type,
\* status_data, environmental_data) on the global factory.
CallCreate(c, snapshot, type) ==
  /\ ncalls < MaxCalls
  /\ frames[c].pc \in {"idle", "done"}
  /\ frames' = [frames EXCEPT ![c] = EnterFrame(frames[c], "create", snapshot, type)]
  /\ ncalls' = ncalls + 1
  /\ UNCHANGED << self_detectors, returned >>
  /\ UNCHANGED datavars

Guard(c) ==
  /\ frames[c].pc = "guard"
  /\ \E next \in {GuardFrame(frames[c])} : Step(c, next)

DetectorStep(c) ==
  /\ frames[c].pc = "loop"
  /\ frames[c].i <= Len(self_detectors)
  /\ \E next \in {DetectorStepFrame(frames, c, self_detectors[frames[c].i])} :
       Step(c, next)

FinishDiscover(c) ==
  /\ frames[c].pc = "loop"
  /\ frames[c].i > Len(self_detectors)
  /\ \E next \in {FinishFrame(frames[c])} : Step(c, next)

SelectStep(c) ==
  /\ frames[c].pc = "select"
  /\ \E next \in {SelectFrame(frames[c])} : Step(c, next)

AttachStep(c) ==
  /\ frames[c].pc = "attach"
  /\ \E next \in {AttachFrame(frames[c])} : Step(c, next)

FallbackStep(c) ==
  /\ frames[c].pc = "fallback"
  /\ \E next \in {FallbackFrame(frames[c])} : Step(c, next)

\* No call is followed from outside.
NoOutsideCall ==
  /\ status_data = EmptyDict
  /\ environmental_data = EmptyDict
  /\ edits = 0
  /\ device_type = << >>
  /\ pc = "calls"
  /\ capabilities = NoCapabilities
  /\ device_type_hint = None
  /\ device_instance = NoneDevice
  /\ calls = << >>
  /\ coherence_bonus = Zero

\* ------------------------------------------------------------ SpecFaults: one call
\* of discover_capabilities over a detector list that may hold a raising detector

InitFaults ==
  /\ NoOutsideCall
  /\ self_detectors \in DetectorLists
  /\ frames = [c \in Callers |-> IdleFrame]
  /\ returned = {}
  /\ ncalls = 0

NextFaults ==
  \/ ncalls = 0 /\ \E snapshot \in Snapshots : CallDiscover(1, snapshot)
  \/ DetectorStep(1)
  \/ FinishDiscover(1)

SpecFaults == InitFaults /\ [][NextFaults]_vars

\* ------------------------------------------------------------ SpecCalls: calls of
\* two threads on the shared instances, interleaved statement by statement

InitCalls ==
  /\ NoOutsideCall
  /\ self_detectors = detectors
  /\ frames = [c \in Callers |-> IdleFrame]
  /\ returned = {}
  /\ ncalls = 0

NextCalls ==
  \E c \in Callers :
    \/ \E snapshot \in CallSnapshots : CallDiscover(c, snapshot)
    \/ \E snapshot \in CallSnapshots : CallCreate(c, snapshot, << "4", "3", "8", "K" >>)
    \/ Guard(c)
    \/ DetectorStep(c)
    \/ FinishDiscover(c)
    \/ SelectStep(c)
    \/ AttachStep(c)
    \/ FallbackStep(c)

SpecCalls == InitCalls /\ [][NextCalls]_vars

\* ------------------------------------------------------------ claims

\* A call of discover_capabilities has returned into capabilities.
Discovered == pc = "discovered"

\* A call of create_device_from_capabilities has returned into device_instance.
Created == pc = "created"

\* The map is absent (None) or empty.
AbsentOrEmpty(data) == data = NoneDict \/ data = EmptyDict

\* The key exists in the map and its value is not null.
Present(data, field) ==
  data # NoneDict /\ field \in DOMAIN data /\ data[field] # None

\* C1: the confidence_score returned by discover lies in [0.0, 1.0] for every
\* pair of maps, also where the bonus is at its cap and the detectors at their
\* maximum; the same holds of the score a created device carries.
C1_ConfidenceInUnitInterval ==
  /\ Discovered =>
       /\ RatLE(Zero, capabilities.confidence_score)
       /\ RatLE(capabilities.confidence_score, One)
  /\ (Created /\ hasattr_discovered_capabilities(device_instance)) =>
       /\ RatLE(Zero, device_instance._discovered_capabilities.confidence_score)
       /\ RatLE(device_instance._discovered_capabilities.confidence_score, One)

\* Every field the detectors read is present: all 17 detectable tags are found,
\* the bonus is at its cap of 0.3 and the sum is clamped to exactly 1.0.
C1_Witness ==
  /\ Discovered
  /\ \A field \in StatusFields : Present(status_data, field)
  /\ \A field \in EnvironmentalFields : Present(environmental_data, field)
  /\ Cardinality(capabilities.discovered_capabilities) = 17
  /\ _calculate_coherence_bonus(capabilities.discovered_capabilities) = Rat(3, 10)
  /\ capabilities.confidence_score = One

\* The strings the rules of the hint classifier name: there are ten of them.
HintStrings ==
  { "AdvancedPurifierFanWithHeating", "AdvancedPurifierFanWithHumidification",
    "AdvancedPurifierFan", "BasicPurifierFanWithHeating",
    "BasicPurifierFanWithHumidification", "BasicPurifierFanWithOscillation",
    "BasicPurifierFan", "AdvancedOscillationFan", "BasicFan", "UnknownDevice" }

\* C2: the hint is the result of the first matching rule of the ordered list
\* (1) advanced sensor, refined by heating, then humidification, (2) heating and
\* auto, (3) humidification and auto, (4) auto or filter, refined by angle
\* oscillation, (5) angle oscillation, (6) basic fan control, (7) unknown; for
\* every tag set, so the hint is always one of the ten listed strings.
C2_HintIsFirstMatchingRule ==
  pc \in {"hinted", "both"} =>
    LET tags == capabilities.discovered_capabilities
        has(tag) == tag \in tags
        r1 == has("VOC_SENSOR") \/ has("NO2_SENSOR") \/ has("CO2_SENSOR")
        r2 == has("HEATING") /\ has("AUTO_MODE")
        r3 == has("HUMIDIFICATION") /\ has("AUTO_MODE")
        r4 == has("AUTO_MODE") \/ has("FILTER_MONITORING")
        r5 == has("ANGLE_OSCILLATION")
        r6 == has("BASIC_FAN_CONTROL")
        hint == device_type_hint
    IN /\ hint \in HintStrings
       /\ hint = "AdvancedPurifierFanWithHeating" <=> (r1 /\ has("HEATING"))
       /\ hint = "AdvancedPurifierFanWithHumidification" <=>
            (r1 /\ ~has("HEATING") /\ has("HUMIDIFICATION"))
       /\ hint = "AdvancedPurifierFan" <=>
            (r1 /\ ~has("HEATING") /\ ~has("HUMIDIFICATION"))
       /\ hint = "BasicPurifierFanWithHeating" <=> (~r1 /\ r2)
       /\ hint = "BasicPurifierFanWithHumidification" <=> (~r1 /\ ~r2 /\ r3)
       /\ hint = "BasicPurifierFanWithOscillation" <=>
            (~r1 /\ ~r2 /\ ~r3 /\ r4 /\ has("ANGLE_OSCILLATION"))
       /\ hint = "BasicPurifierFan" <=>
            (~r1 /\ ~r2 /\ ~r3 /\ r4 /\ ~has("ANGLE_OSCILLATION"))
       /\ hint = "AdvancedOscillationFan" <=> (~r1 /\ ~r2 /\ ~r3 /\ ~r4 /\ r5)
       /\ hint = "BasicFan" <=> (~r1 /\ ~r2 /\ ~r3 /\ ~r4 /\ ~r5 /\ r6)
       /\ hint = "UnknownDevice" <=> (~r1 /\ ~r2 /\ ~r3 /\ ~r4 /\ ~r5 /\ ~r6)

\* Rule 4 decides through FILTER_MONITORING alone, on its angle branch, although
\* heating is present (rule 2 needs AUTO_MODE).
C2_Witness ==
  /\ pc = "hinted"
  /\ {"FILTER_MONITORING", "ANGLE_OSCILLATION", "HEATING", "BASIC_FAN_CONTROL"}
       \subseteq capabilities.discovered_capabilities
  /\ capabilities.discovered_capabilities
       \cap {"AUTO_MODE", "VOC_SENSOR", "NO2_SENSOR", "CO2_SENSOR"} = {}
  /\ device_type_hint = "BasicPurifierFanWithOscillation"

\* C2 as stated: the rules hold and all hints lie within nine strings, which is
\* to say that the classifier has at most nine distinct results over the tag sets.
C2_HintAmongNineStrings ==
  pc \in {"hinted", "both"} =>
    /\ C2_HintIsFirstMatchingRule
    /\ Cardinality({ _suggest_device_type(tags) : tags \in TagSets }) <= 9

\* C3: factory selection is the result of the first matching rule of (1) advanced
\* sensor, (2) auto, filter and heating, (3) auto, filter and humidification,
\* (4) auto and filter, (5) angle oscillation without auto, (6) basic fan
\* control, (7) no match; for every tag set.
C3_SelectionIsFirstMatchingRule ==
  pc \in {"selected", "both"} =>
    LET tags == capabilities.discovered_capabilities
        has(tag) == tag \in tags
        r1 == has("VOC_SENSOR") \/ has("NO2_SENSOR") \/ has("CO2_SENSOR")
        r4 == has("AUTO_MODE") /\ has("FILTER_MONITORING")
        r2 == r4 /\ has("HEATING")
        r3 == r4 /\ has("HUMIDIFICATION")
        r5 == has("ANGLE_OSCILLATION") /\ ~has("AUTO_MODE")
        r6 == has("BASIC_FAN_CONTROL")
        class == device_instance.class
    IN /\ class = "DysonAdvancedPurifierFan" <=> r1
       /\ class = "DysonBasicPurifierFanWithHeating" <=> (~r1 /\ r2)
       /\ class = "DysonBasicPurifierFanWithHumidification" <=> (~r1 /\ ~r2 /\ r3)
       /\ class = "DysonBasicPurifierFanWithOscillation" <=>
            (~r1 /\ ~r2 /\ ~r3 /\ r4)
       /\ class = "DysonAdvancedOscillationFan" <=> (~r1 /\ ~r2 /\ ~r3 /\ ~r4 /\ r5)
       /\ class = "DysonBasicFan" <=> (~r1 /\ ~r2 /\ ~r3 /\ ~r4 /\ ~r5 /\ r6)
       /\ device_instance = NoneDevice <=>
            (~r1 /\ ~r2 /\ ~r3 /\ ~r4 /\ ~r5 /\ ~r6)
       /\ device_instance # NoneDevice => device_instance._device_type = device_type

\* AUTO_MODE with ANGLE_OSCILLATION and heating but no filter field: rules 2 to 5
\* all fail and rule 6 selects the basic fan.
C3_Witness ==
  /\ pc = "selected"
  /\ {"AUTO_MODE", "ANGLE_OSCILLATION", "HEATING", "BASIC_FAN_CONTROL"}
       \subseteq capabilities.discovered_capabilities
  /\ capabilities.discovered_capabilities
       \cap {"FILTER_MONITORING", "VOC_SENSOR", "NO2_SENSOR", "CO2_SENSOR"} = {}
  /\ device_instance.class = "DysonBasicFan"

\* The static table: prefix and class.
StaticTable ==
  { << << "7", "3", "9" >>, "DysonAdvancedOscillationFan" >>,
    << << "4", "3", "8" >>, "DysonBasicPurifierFanWithOscillation" >>,
    << << "5", "2", "7" >>, "DysonBasicPurifierFanWithHeating" >>,
    << << "3", "5", "8" >>, "DysonBasicPurifierFanWithHumidification" >>,
    << << "6", "6", "4" >>, "DysonAdvancedPurifierFan" >> }

\* The string begins with the three characters of the prefix.
HasPrefix(str, prefix) ==
  Len(str) >= 3 /\ \A i \in 1..3 : str[i] = prefix[i]

\* The outcome the static table gives a device-type string: the row's class
\* around the whole string, or none when no row's prefix begins the string.
StaticOutcome(str) ==
  IF \E row \in StaticTable : HasPrefix(str, row[1])
    THEN [ class |-> (CHOOSE row \in StaticTable : HasPrefix(str, row[1]))[2],
           _device_type |-> str ]
    ELSE NoneDevice

\* The tags discovery finds in the maps of the call, absent maps taken as empty,
\* and the selection over them.
DiscoveryOfCall ==
  discover_capabilities(OrEmpty(status_data), OrEmpty(environmental_data))

SelectionOfCall == _create_device_from_capabilities(device_type, DiscoveryOfCall)

\* C4: when both maps are absent or empty, create_device_from_capabilities calls
\* the static fallback only (no discovery, no selection), returns the static
\* outcome for the device-type string, and the device carries no
\* DeviceCapabilities.
C4_NoTelemetryGoesStraightToFallback ==
  (Created /\ AbsentOrEmpty(status_data) /\ AbsentOrEmpty(environmental_data)) =>
    /\ calls = << "_fallback_to_static_mapping" >>
    /\ device_instance = StaticOutcome(device_type)
    /\ ~hasattr_discovered_capabilities(device_instance)
    /\ get_device_capabilities_summary(device_instance).capabilities
         = "Static mapping used"

\* Scenario E: both maps empty and the type "438K".
C4_Witness ==
  /\ Created
  /\ status_data = EmptyDict /\ environmental_data = EmptyDict
  /\ device_type = << "4", "3", "8", "K" >>
  /\ device_instance.class = "DysonBasicPurifierFanWithOscillation"
  /\ calls = << "_fallback_to_static_mapping" >>

\* C5: when a map is non-empty and selection over the discovered tags matches,
\* the returned device is the selected variant and carries the DeviceCapabilities
\* of the discovery: tags, field sets, hint and confidence, as the summary
\* reports them.
C5_MatchReturnsSelectionWithCapabilities ==
  (Created /\ ~(AbsentOrEmpty(status_data) /\ AbsentOrEmpty(environmental_data))) =>
    \A selected \in {SelectionOfCall} :
      selected # NoneDevice =>
        \A found \in {DiscoveryOfCall} :
          /\ device_instance.class = selected.class
          /\ device_instance._device_type = device_type
          /\ hasattr_discovered_capabilities(device_instance)
          /\ device_instance._discovered_capabilities = found
          /\ \A summary \in {get_device_capabilities_summary(device_instance)} :
               /\ summary.device_class = selected.class
               /\ summary.capabilities = found.discovered_capabilities
               /\ summary.status_fields = KeysOf(status_data)
               /\ summary.environmental_fields = KeysOf(environmental_data)
               /\ summary.suggested_type = found.device_type_hint
               /\ summary.confidence_score = found.confidence_score
          /\ calls = << "discover_capabilities", "_create_device_from_capabilities" >>

\* Scenario C with one more field and a type the static table does not know: the
\* heating purifier comes from the selection and carries what was discovered.
C5_Witness ==
  /\ Created
  /\ device_type = << "9", "9", "9" >>
  /\ environmental_data = EmptyDict
  /\ device_instance.class = "DysonBasicPurifierFanWithHeating"
  /\ hasattr_discovered_capabilities(device_instance)
  /\ device_instance._discovered_capabilities.discovered_capabilities
       = {"HEATING", "AUTO_MODE", "FILTER_MONITORING"}
  /\ device_instance._discovered_capabilities.status_fields
       = {"hmod", "auto", "cflr", "tilt"}

\* C6: when a map is non-empty and selection yields no match, the result is the
\* static outcome for the device-type string; and the result is none exactly
\* when (telemetry is empty or selection yields no match) and no static prefix
\* matches. Every call returns: none is a value, not an exception.
C6_NoMatchFallsBackAndNoneIsExplicit ==
  Created =>
    LET empty == AbsentOrEmpty(status_data) /\ AbsentOrEmpty(environmental_data)
        nomatch == SelectionOfCall = NoneDevice
        noprefix == \A row \in StaticTable : ~HasPrefix(device_type, row[1])
    IN /\ (~empty /\ nomatch) =>
            /\ device_instance = StaticOutcome(device_type)
            /\ calls = << "discover_capabilities",
                          "_create_device_from_capabilities",
                          "_fallback_to_static_mapping" >>
       /\ device_instance = NoneDevice <=> ((empty \/ nomatch) /\ noprefix)

\* A status map with fields, none of which any rule selects on, and the type
\* "999": discovery and selection run, the fallback runs, the result is none.
C6_Witness ==
  /\ Created
  /\ Present(status_data, "oson")
  /\ device_type = << "9", "9", "9" >>
  /\ calls = << "discover_capabilities", "_create_device_from_capabilities",
                "_fallback_to_static_mapping" >>
  /\ device_instance = NoneDevice

\* C7: the static fallback maps a string by its literal prefix, whatever follows
\* the prefix, and every string with none of the five prefixes yields none.
C7_StaticFallbackByPrefix ==
  pc = "mapped" =>
    /\ \A row \in StaticTable :
         HasPrefix(device_type, row[1]) =>
           /\ device_instance.class = row[2]
           /\ device_instance._device_type = device_type
    /\ (\A row \in StaticTable : ~HasPrefix(device_type, row[1])) =>
         device_instance = NoneDevice

\* A regional variant: "527E" is a heating purifier.
C7_Witness ==
  /\ pc = "mapped"
  /\ device_type = << "5", "2", "7", "E" >>
  /\ device_instance.class = "DysonBasicPurifierFanWithHeating"

\* The detector returned from detect and from get_confidence_score.
Completed(detector) ==
  /\ ~detect(detector, status_data, environmental_data).raised
  /\ ~get_confidence_score(detector, status_data, environmental_data).raised

\* The detector reported a tag or a confidence above 0.
Relevant(detector) ==
  /\ Completed(detector)
  /\ \/ detect(detector, status_data, environmental_data).value # {}
     \/ get_confidence_score(detector, status_data, environmental_data).value # Zero

\* C8: if no detector is relevant, and so whenever no field a detector reads is
\* present in its map (unrecognized fields, null values and fields in the wrong
\* map do not count), discover returns no tag, confidence exactly 0.0 and the
\* hint "UnknownDevice".
C8_NothingRecognizedGivesUnknown ==
  Discovered =>
    LET unknown == /\ capabilities.discovered_capabilities = {}
                   /\ capabilities.confidence_score = Zero
                   /\ capabilities.device_type_hint = "UnknownDevice"
    IN /\ (\A i \in 1..Len(detectors) : ~Relevant(detectors[i])) => unknown
       /\ ( /\ \A field \in StatusFields : ~Present(status_data, field)
            /\ \A field \in EnvironmentalFields : ~Present(environmental_data, field) )
            => unknown

\* The status map holds a sensor field that belongs to the environmental map and
\* nothing else: nothing is recognized.
C8_Witness ==
  /\ Discovered
  /\ status_data # NoneDict /\ DOMAIN status_data = {"va10"}
  /\ status_data["va10"] # None
  /\ environmental_data = EmptyDict
  /\ capabilities.confidence_score = Zero
  /\ capabilities.device_type_hint = "UnknownDevice"

\* C9: discovered_capabilities is the union of the tag sets of the detectors that
\* completed: a tag of a detector whose confidence is 0 is kept, and no tag
\* appears that no completed detector reported.
C9_TagsAreUnionOfDetectorTags ==
  Discovered =>
    capabilities.discovered_capabilities =
      UNION { detect(detectors[i], status_data, environmental_data).value :
                i \in { j \in 1..Len(detectors) : Completed(detectors[j]) } }

\* Only wath is present: the Humidification detector reports WATER_HARDNESS with
\* confidence 0, and the tag is in the result.
C9_Witness ==
  /\ Discovered
  /\ Present(status_data, "wath") /\ ~Present(status_data, "hume")
  /\ HumidificationDetector_get_confidence_score(status_data, environmental_data).value
       = Zero
  /\ capabilities.discovered_capabilities = {"WATER_HARDNESS"}

\* C10: for every pair of maps each tag is discovered exactly when its field
\* condition holds in its own map; a field in the other map triggers nothing.
C10_TagIffFieldCondition ==
  (Discovered /\ status_data # NoneDict /\ environmental_data # NoneDict) =>
    LET s(field) == Present(status_data, field)
        e(field) == Present(environmental_data, field)
        found(tag) == tag \in capabilities.discovered_capabilities
    IN /\ found("BASIC_FAN_CONTROL") <=> (s("fpwr") /\ s("fnsp"))
       /\ found("BASIC_OSCILLATION") <=> s("oson")
       /\ found("NIGHT_MODE") <=> (s("nmod") /\ s("nmdv"))
       /\ found("SLEEP_TIMER") <=> s("sltm")
       /\ found("ANGLE_OSCILLATION") <=> (s("osal") /\ s("osau"))
       /\ found("AUTO_MODE") <=> s("auto")
       /\ found("FILTER_MONITORING") <=> (s("cflr") \/ s("hflr"))
       /\ found("FRONT_AIRFLOW") <=> s("fdir")
       /\ found("HEATING") <=> s("hmod")
       /\ found("HUMIDIFICATION") <=> s("hume")
       /\ found("WATER_HARDNESS") <=> s("wath")
       /\ found("PM_SENSORS") <=> (e("p25r") \/ e("p10r") \/ e("pm25") \/ e("pm10"))
       /\ found("VOC_SENSOR") <=> e("va10")
       /\ found("NO2_SENSOR") <=> e("noxl")
       /\ found("CO2_SENSOR") <=> e("co2r")
       /\ found("HUMIDITY_SENSOR") <=> e("hact")
       /\ found("TEMPERATURE_SENSOR") <=> e("tact")

\* Scenario A with the auto field in the environmental map: the basic-fan tags
\* are found and AUTO_MODE is not.
C10_Witness ==
  /\ Discovered
  /\ Present(environmental_data, "auto") /\ ~Present(status_data, "auto")
  /\ capabilities.discovered_capabilities = {"BASIC_FAN_CONTROL", "BASIC_OSCILLATION"}
  /\ capabilities.device_type_hint = "BasicFan"

\* The detector returns from both of its steps on the maps.
CompletesOn(detector, s, e) ==
  /\ ~detect(detector, s, e).raised
  /\ ~get_confidence_score(detector, s, e).raised

\* What the detectors of a list that complete on the maps report, in list order,
\* the others left out.
RECURSIVE ResultsOfCompleted(_, _, _)
ResultsOfCompleted(list, s, e) ==
  IF list = << >> THEN << >>
  ELSE IF CompletesOn(Head(list), s, e)
    THEN << [ detector |-> Head(list),
              capabilities |-> detect(Head(list), s, e).value,
              confidence |-> get_confidence_score(Head(list), s, e).value,
              is_relevant |->
                \/ detect(Head(list), s, e).value # {}
                \/ get_confidence_score(Head(list), s, e).value # Zero ] >>
         \o ResultsOfCompleted(Tail(list), s, e)
  ELSE ResultsOfCompleted(Tail(list), s, e)

\* The tags of a sequence of detector results.
TagsOf(results) == UNION { results[k].capabilities : k \in 1..Len(results) }

\* C11: a detector that raises, from its detect step or from its confidence step,
\* does not abort discover. While the loop runs, the accumulators hold exactly
\* what the completed detectors among those already run reported, in order; the
\* DeviceCapabilities returned is the one computed over the list with the raising
\* detectors removed: no tag and no weight from them, the others unchanged.
C11_DetectorFailureIsLocal ==
  \A c \in DOMAIN frames :
    \A frame \in {frames[c]} :
      /\ frame.pc = "loop" =>
           \A done \in { ResultsOfCompleted(SubSeq(self_detectors, 1, frame.i - 1),
                                            frame.discover_args[1],
                                            frame.discover_args[2]) } :
             /\ frame.loop.detector_results = done
             /\ frame.loop.all_capabilities = TagsOf(done)
      /\ (frame.pc = "done" /\ frame.kind = "discover") =>
           \A done \in { ResultsOfCompleted(self_detectors, frame.status_data,
                                            frame.environmental_data) } :
             /\ frame.capabilities.discovered_capabilities = TagsOf(done)
             /\ frame.capabilities.device_type_hint = _suggest_device_type(TagsOf(done))
             /\ frame.capabilities.confidence_score =
                  _calculate_intelligent_confidence(done, TagsOf(done))
             /\ frame.capabilities.status_fields = KeysOf(frame.status_data)
             /\ frame.capabilities.environmental_fields =
                  KeysOf(frame.environmental_data)

\* A detector whose confidence step raises after its detect step reported
\* TILT_CONTROL stands third in the list: discover returned, the tag is not in the
\* result, and the tags of the detectors before and after it are.
C11_Witness ==
  /\ Len(self_detectors) = 7
  /\ self_detectors[3] = "RaisingConfidenceDetector"
  /\ frames[1].pc = "done"
  /\ "TILT_CONTROL" \notin frames[1].capabilities.discovered_capabilities
  /\ {"BASIC_FAN_CONTROL", "ANGLE_OSCILLATION", "AUTO_MODE", "VOC_SENSOR",
      "HEATING", "HUMIDIFICATION"}
       \subseteq frames[1].capabilities.discovered_capabilities
  /\ frames[1].capabilities.confidence_score = One

\* The map without the keys that fail the test keep(field, value).
Keep(data, keep(_, _)) ==
  [k \in {f \in DOMAIN data : keep(f, data[f])} |-> data[k]]

\* Every detector returns, and reports on the two maps what it reports on the
\* maps s and e.
SameDetection(s, e) ==
  \A k \in 1..Len(detectors) :
    \A detector \in {detectors[k]} :
      /\ ~detect(detector, status_data, environmental_data).raised
      /\ ~get_confidence_score(detector, status_data, environmental_data).raised
      /\ detect(detector, status_data, environmental_data) = detect(detector, s, e)
      /\ get_confidence_score(detector, status_data, environmental_data)
           = get_confidence_score(detector, s, e)

\* The resolved value of the field is not null.
ResolvedNotNull(data, field) == _get_field_value(data, field) # None

\* C12: a field is present iff its key exists and its resolved value is not
\* null, the resolved value of a [previous, current] pair being the current
\* element: every detector reports the tags and the confidence it reports on the
\* maps without the keys whose resolved value is null, and so does discover.
C12_PresentIffResolvedValueNotNull ==
  (Discovered /\ status_data # NoneDict /\ environmental_data # NoneDict) =>
    \A s \in { Keep(status_data,
                    LAMBDA f, v : ResolvedNotNull(status_data, f)) },
       e \in { Keep(environmental_data,
                    LAMBDA f, v : ResolvedNotNull(environmental_data, f)) } :
      /\ SameDetection(s, e)
      /\ capabilities.discovered_capabilities
           = discover_capabilities(s, e).discovered_capabilities
      /\ capabilities.confidence_score = discover_capabilities(s, e).confidence_score
      /\ capabilities.device_type_hint = discover_capabilities(s, e).device_type_hint

\* The value of a field read as a number does not parse as one.
Malformed(data, field) ==
  /\ field \in NumberFields
  /\ _get_field_value(data, field) # None
  /\ ~int_returns(_get_field_value(data, field))

\* C13: a field with a malformed value is absent for every detector: no
\* detector raises, and every detector reports the tags and the confidence it
\* reports on the maps without the malformed fields, and so does discover.
C13_MalformedValueIsAbsent ==
  (Discovered /\ status_data # NoneDict /\ environmental_data # NoneDict) =>
    \A s \in { Keep(status_data, LAMBDA f, v : ~Malformed(status_data, f)) },
       e \in { Keep(environmental_data,
                    LAMBDA f, v : ~Malformed(environmental_data, f)) } :
      /\ SameDetection(s, e)
      /\ capabilities.discovered_capabilities
           = discover_capabilities(s, e).discovered_capabilities
      /\ capabilities.confidence_score = discover_capabilities(s, e).confidence_score

\* The arguments of two returned calls are identical.
SameArguments(a, b) ==
  /\ a.kind = b.kind
  /\ a.status_data = b.status_data
  /\ a.environmental_data = b.environmental_data
  /\ a.device_type = b.device_type

\* C14: discover is deterministic and idempotent: whatever calls were made
\* before and whichever thread made them, two calls with identical maps return
\* identical DeviceCapabilities (tags, field sets, hint and confidence); the same
\* holds of the device the factory returns.
C14_SameArgumentsSameResult ==
  \A a \in returned, b \in returned :
    SameArguments(a, b) =>
      /\ a.capabilities = b.capabilities
      /\ a.device_instance = b.device_instance

\* Three calls were started: both threads have returned from discover on the
\* heating payload, one of them after a call on another payload, and hold the
\* same DeviceCapabilities.
C14_Witness ==
  /\ ncalls = 3
  /\ Cardinality(returned) = 2
  /\ \A c \in Callers :
       /\ frames[c].pc = "done"
       /\ frames[c].kind = "discover"
       /\ frames[c].passed = << Telemetry({"hmod", "auto", "cflr"}), NoneDict >>
  /\ frames[1].capabilities = frames[2].capabilities
  /\ frames[1].capabilities.discovered_capabilities = {"HEATING"}

\* C15: no statement of discover, of a detector or of the factory changes the
\* status map or the environmental map of the caller: during the call and after
\* its return both maps hold the keys and values they held when passed, on a
\* match, when a detector raised and on the static fallback.
C15_MapsAreNotChanged ==
  \A c \in DOMAIN frames :
    /\ frames[c].status_data = frames[c].passed[1]
    /\ frames[c].environmental_data = frames[c].passed[2]

\* The factory has returned the static fallback for a status map no rule
\* selects on, and discover has returned although two detectors raised on a None
\* environmental map: the maps are as passed.
C15_Witness ==
  /\ frames[1].pc = "done" /\ frames[1].kind = "create"
  /\ frames[1].status_data = Telemetry({"oson"})
  /\ frames[1].device_instance.class = "DysonBasicPurifierFanWithOscillation"
  /\ ~hasattr_discovered_capabilities(frames[1].device_instance)
  /\ frames[2].pc = "done" /\ frames[2].kind = "discover"
  /\ frames[2].status_data = Telemetry({"hmod", "auto", "cflr"})
  /\ frames[2].environmental_data = NoneDict
  /\ frames[2].capabilities.discovered_capabilities = {"HEATING"}

\* C16: under every interleaving of the statements of concurrent calls on the
\* shared instances, each call returns what it returns when run alone, its
\* accumulators hold at every statement what its own detectors reported so far,
\* and the shared detector list is never written.
C16_ConcurrentCallsDoNotInterfere ==
  /\ DOMAIN frames # {} => self_detectors = detectors
  /\ \A c \in DOMAIN frames :
       \A frame \in {frames[c]} :
         /\ frame.pc = "loop" =>
              \A done \in { ResultsOfCompleted(SubSeq(detectors, 1, frame.i - 1),
                                               frame.discover_args[1],
                                               frame.discover_args[2]) } :
                /\ frame.loop.detector_results = done
                /\ frame.loop.all_capabilities = TagsOf(done)
         /\ (frame.pc = "done" /\ frame.kind = "discover") =>
              frame.capabilities
                = discover_capabilities(frame.passed[1], frame.passed[2])
         /\ (frame.pc = "done" /\ frame.kind = "create") =>
              frame.device_instance
                = create_device_from_capabilities(frame.device_type, frame.passed[1],
                                                  frame.passed[2]).device_instance

\* Both threads are inside the detector loop at once, one in discover on the
\* basic-fan payload and one in the factory on the heating payload, each holding
\* the tags of its own payload.
C16_Witness ==
  /\ returned = {}
  /\ frames[1].pc = "loop" /\ frames[1].kind = "discover" /\ frames[1].i = 5
  /\ frames[1].loop.all_capabilities = {"BASIC_FAN_CONTROL", "BASIC_OSCILLATION"}
  /\ frames[2].pc = "loop" /\ frames[2].kind = "create" /\ frames[2].i = 6
  /\ frames[2].loop.all_capabilities = {"AUTO_MODE", "FILTER_MONITORING", "HEATING"}

\* C17: for a tag set with ANGLE_OSCILLATION and FILTER_MONITORING, without
\* AUTO_MODE and without VOC_SENSOR, NO2_SENSOR and CO2_SENSOR, the hint is
\* "BasicPurifierFanWithOscillation" while the factory selects the advanced
\* oscillation fan.
C17_HintAndSelectionDiverge ==
  ( /\ pc = "both"
    /\ {"ANGLE_OSCILLATION", "FILTER_MONITORING"}
         \subseteq capabilities.discovered_capabilities
    /\ capabilities.discovered_capabilities
         \cap {"AUTO_MODE", "VOC_SENSOR", "NO2_SENSOR", "CO2_SENSOR"} = {} ) =>
    /\ device_type_hint = "BasicPurifierFanWithOscillation"
    /\ device_instance.class = "DysonAdvancedOscillationFan"

\* The divergent tag set, here with BASIC_FAN_CONTROL, HEATING and one tag no
\* rule reads: the classifier and the factory have both run and disagree.
C17_Witness ==
  /\ pc = "both"
  /\ capabilities.discovered_capabilities
       = {"ANGLE_OSCILLATION", "FILTER_MONITORING", "BASIC_FAN_CONTROL", "HEATING",
          "NIGHT_MODE"}
  /\ device_type_hint = "BasicPurifierFanWithOscillation"
  /\ device_instance.class = "DysonAdvancedOscillationFan"

\* C18: the device-type string influences neither discovery nor a matched
\* selection: when selection over the tags discovered in the maps matches for
\* some device type, it selects the same variant for every device type, the
\* factory has returned that variant for the type it was called with, whatever
\* the static table says of that type, and the DeviceCapabilities the device
\* carries is the one discovery computes from the maps alone.
C18_DeviceTypeDoesNotInfluence ==
  Created =>
    \A found \in {DiscoveryOfCall} :
      (\E type \in DeviceTypes :
         _create_device_from_capabilities(type, found) # NoneDevice) =>
        /\ \A type \in DeviceTypes :
             _create_device_from_capabilities(type, found)
               = [class |-> device_instance.class, _device_type |-> type]
        /\ hasattr_discovered_capabilities(device_instance)
        /\ device_instance._discovered_capabilities = found

\* The sensor-only payload with the type "527E", which the static table maps to
\* the heating purifier: the factory returned the advanced purifier.
C18_Witness ==
  /\ Created
  /\ device_type = << "5", "2", "7", "E" >>
  /\ StaticOutcome(device_type).class = "DysonBasicPurifierFanWithHeating"
  /\ status_data = EmptyDict
  /\ device_instance.class = "DysonAdvancedPurifierFan"
  /\ device_instance._discovered_capabilities.discovered_capabilities
       = {"VOC_SENSOR", "CO2_SENSOR"}

\* The confidence the detector reports on the maps of the call.
ConfidenceOf(detector) ==
  get_confidence_score(detector, status_data, environmental_data).value

\* C19: on every pair of maps the confidence of every shipped detector that
\* returns lies in [0, 1]; the Purification detector reports exactly 1.0 when
\* auto, a filter field, a PM field and fdir are all present, where its
\* contributions 0.4, 0.4, 0.3 and 0.1 add up to 1.2.
C19_DetectorConfidenceInUnitInterval ==
  Discovered =>
    /\ \A k \in 1..Len(detectors) :
         Completed(detectors[k]) =>
           /\ RatLE(Zero, ConfidenceOf(detectors[k]))
           /\ RatLE(ConfidenceOf(detectors[k]), One)
    /\ ( /\ Present(status_data, "auto")
         /\ Present(status_data, "cflr") \/ Present(status_data, "hflr")
         /\ \E field \in {"p25r", "p10r", "pm25", "pm10"} :
              Present(environmental_data, field)
         /\ Present(status_data, "fdir") ) =>
         /\ RatAdd(RatAdd(Rat(4, 10), Rat(4, 10)), RatAdd(Rat(3, 10), Rat(1, 10)))
              = Rat(12, 10)
         /\ ConfidenceOf("PurificationDetector") = One

\* The purifier payload with fdir reported as well: all four contributions of
\* the Purification detector are in and its confidence is 1.0.
C19_Witness ==
  /\ Discovered
  /\ status_data # NoneDict /\ environmental_data # NoneDict
  /\ DOMAIN status_data = {"fpwr", "fnsp", "auto", "cflr", "hflr", "osal", "osau", "fdir"}
  /\ DOMAIN environmental_data = {"p25r"}
  /\ \A field \in DOMAIN status_data : Present(status_data, field)
  /\ Present(environmental_data, "p25r")
  /\ ConfidenceOf("PurificationDetector") = One
  /\ "FRONT_AIRFLOW" \in capabilities.discovered_capabilities

\* n hundredths, at most 1.
Hundredths(n) == Rat(IF n > 100 THEN 100 ELSE n, 100)

\* C20: the confidence of each shipped detector is its table rule on every
\* pair of maps: BasicFan min(1, 0.8 for fpwr and fnsp, + 0.15 for oson, + 0.05
\* for sltm); AdvancedOscillation 0.95 for osal and osau, 0.5 for one of them,
\* else 0.0; AdvancedEnvironmental the number of va10, noxl, co2r present in the
\* environmental map over 3; Heating 1.0 for hmod, else 0.0; Humidification 1.0
\* for hume, else 0.0. No other field, and so no other tag of the detector
\* (night mode, humidity, temperature, water hardness), enters.
C20_DetectorConfidenceTable ==
  Discovered =>
    LET s(field) == Present(status_data, field)
        e(field) == Present(environmental_data, field)
        n(condition) == IF condition THEN 1 ELSE 0
    IN /\ Completed("BasicFanDetector") =>
            ConfidenceOf("BasicFanDetector")
              = Hundredths(80 * n(s("fpwr") /\ s("fnsp")) + 15 * n(s("oson"))
                           + 5 * n(s("sltm")))
       /\ Completed("AdvancedOscillationDetector") =>
            ConfidenceOf("AdvancedOscillationDetector")
              = IF s("osal") /\ s("osau") THEN Hundredths(95)
                ELSE IF s("osal") \/ s("osau") THEN Hundredths(50)
                ELSE Zero
       /\ Completed("AdvancedEnvironmentalDetector") =>
            ConfidenceOf("AdvancedEnvironmentalDetector")
              = Rat(n(e("va10")) + n(e("noxl")) + n(e("co2r")), 3)
       /\ Completed("HeatingDetector") =>
            ConfidenceOf("HeatingDetector") = IF s("hmod") THEN One ELSE Zero
       /\ Completed("HumidificationDetector") =>
            ConfidenceOf("HumidificationDetector") = IF s("hume") THEN One ELSE Zero

\* Scenario D with the humidity field reported as well: va10 and co2r give the
\* AdvancedEnvironmental detector 2/3 although it emits three tags.
C20_Witness ==
  /\ Discovered
  /\ status_data = EmptyDict
  /\ environmental_data # NoneDict
  /\ DOMAIN environmental_data = {"va10", "co2r", "hact"}
  /\ \A field \in DOMAIN environmental_data : Present(environmental_data, field)
  /\ ConfidenceOf("AdvancedEnvironmentalDetector") = Rat(2, 3)
  /\ capabilities.discovered_capabilities
       = {"VOC_SENSOR", "CO2_SENSOR", "HUMIDITY_SENSOR"}
  /\ capabilities.device_type_hint = "AdvancedPurifierFan"

\* The weight the confidence of a shipped detector carries in the mean: the first
\* number if the detector reported a tag, the second if it reported none.
WeightTable ==
  [ BasicFanDetector |-> << Rat(3, 1), Rat(1, 1) >>,
    AdvancedOscillationDetector |-> << Rat(5, 2), Rat(1, 2) >>,
    PurificationDetector |-> << Rat(3, 1), Rat(1, 1) >>,
    AdvancedEnvironmentalDetector |-> << Rat(5, 2), Rat(1, 2) >>,
    HeatingDetector |-> << Rat(2, 1), Rat(1, 2) >>,
    HumidificationDetector |-> << Rat(2, 1), Rat(1, 2) >> ]

\* The weight of a shipped detector on the maps of the state; a detector that is
\* not relevant (or that failed) weighs nothing.
WeightOf(detector) ==
  IF ~Relevant(detector) THEN Zero
  ELSE IF detect(detector, status_data, environmental_data).value # {}
    THEN WeightTable[detector][1]
  ELSE WeightTable[detector][2]

\* The sum of a quantity over the six shipped detectors.
SumOverDetectors(quantity(_)) ==
  RatAdd(quantity("BasicFanDetector"),
  RatAdd(quantity("AdvancedOscillationDetector"),
  RatAdd(quantity("PurificationDetector"),
  RatAdd(quantity("AdvancedEnvironmentalDetector"),
  RatAdd(quantity("HeatingDetector"),
         quantity("HumidificationDetector"))))))

\* C21: the base confidence is the weighted mean of the confidences of the
\* relevant detectors, with weight 3.0/1.0 (BasicFan, Purification), 2.5/0.5
\* (AdvancedOscillation, AdvancedEnvironmental) and 2.0/0.5 (Heating,
\* Humidification) for a detector that reported a tag / reported none, and
\* confidence_score = min(1.0, base + coherence bonus); detectors that are not
\* relevant or failed add to neither sum.
C21_ConfidenceIsWeightedMean ==
  (Discovered /\ \E i \in 1..Len(detectors) : Relevant(detectors[i])) =>
    LET weighted(detector) ==
          IF Relevant(detector)
            THEN RatMul(ConfidenceOf(detector), WeightOf(detector)) ELSE Zero
    IN \E total_weighted \in {SumOverDetectors(weighted)} :
       \E total_weight \in {SumOverDetectors(WeightOf)} :
         /\ RatLT(Zero, total_weight)
         /\ capabilities.confidence_score =
              RatMin(One,
                RatAdd(RatDiv(total_weighted, total_weight),
                       _calculate_coherence_bonus(
                         capabilities.discovered_capabilities)))

\* fpwr, fnsp, oson and osal are present: BasicFan reports tags with confidence
\* 0.95 (weight 3.0), AdvancedOscillation reports no tag with confidence 0.5
\* (weight 0.5), the other detectors are not relevant; the mean is 3.1 / 3.5 and
\* with the bonus 0.1 the score is 69/70.
C21_Witness ==
  /\ Discovered
  /\ Relevant("AdvancedOscillationDetector")
  /\ AdvancedOscillationDetector_detect(status_data, environmental_data).value = {}
  /\ ConfidenceOf("BasicFanDetector") = Rat(95, 100)
  /\ ~Relevant("PurificationDetector")
  /\ capabilities.confidence_score = Rat(69, 70)

\* The hundredths each coherence rule adds when it holds of a tag set.
CoherenceRules(tags) ==
  { << 1, 10 >> : x \in { y \in {1} :
        {"BASIC_FAN_CONTROL", "BASIC_OSCILLATION"} \subseteq tags } }
  \cup { << 2, 15 >> : x \in { y \in {1} :
        {"AUTO_MODE", "FILTER_MONITORING", "PM_SENSORS"} \subseteq tags } }
  \cup { << 3, 20 >> : x \in { y \in {1} :
        \E a, b \in {"VOC_SENSOR", "NO2_SENSOR", "CO2_SENSOR"} \cap tags : a # b } }
  \cup { << 4, 15 >> : x \in { y \in {1} : {"HEATING", "AUTO_MODE"} \subseteq tags } }
  \cup { << 5, 15 >> : x \in { y \in {1} :
        {"HUMIDIFICATION", "HUMIDITY_SENSOR"} \subseteq tags } }
  \cup { << 6, 20 >> : x \in { y \in {1} :
        "ANGLE_OSCILLATION" \in tags /\ "AUTO_MODE" \notin tags } }
  \cup { << 7, 10 >> : x \in { y \in {1} :
        {"HUMIDITY_SENSOR", "TEMPERATURE_SENSOR"} \subseteq tags } }

\* The sum of the hundredths of a set of rules, taken in any order.
RECURSIVE SumOfRules(_)
SumOfRules(rules) ==
  IF rules = {} THEN 0
  ELSE LET rule == CHOOSE r \in rules : TRUE
       IN rule[2] + SumOfRules(rules \ {rule})

\* C22: the coherence bonus depends on the tag set only and is min(0.30, sum of
\* the rules that hold): +0.10 basic control with oscillation, +0.15 auto mode
\* with filter monitoring and PM sensors, +0.20 two or more of VOC/NO2/CO2,
\* +0.15 heating with auto mode, +0.15 humidification with humidity sensor,
\* +0.20 angle oscillation without auto mode, +0.10 humidity with temperature
\* sensor; it never exceeds 0.30.
C22_CoherenceBonusIsCappedSum ==
  pc = "scored" =>
    \E sum \in {SumOfRules(CoherenceRules(capabilities.discovered_capabilities))} :
      /\ coherence_bonus = Rat(IF sum > 30 THEN 30 ELSE sum, 100)
      /\ RatLE(coherence_bonus, Rat(30, 100))

\* A humidifying purifier with every sensor: five rules hold, their sum is 0.75
\* and the bonus is 0.30.
C22_Witness ==
  /\ pc = "scored"
  /\ capabilities.discovered_capabilities =
       BonusTags \ {"ANGLE_OSCILLATION", "BASIC_OSCILLATION"}
  /\ SumOfRules(CoherenceRules(capabilities.discovered_capabilities)) = 75
  /\ coherence_bonus = Rat(3, 10)

\* The keys of a map as passed to the call; a call that passes None has none.
KeySet(data) == IF data = NoneDict THEN {} ELSE DOMAIN data

\* C23: status_fields is exactly the key set of the status map and
\* environmental_fields exactly the key set of the environmental map, with the
\* keys no detector recognizes and the keys whose value is null, whatever tags
\* were found.
C23_FieldsAreKeySets ==
  Discovered =>
    /\ capabilities.status_fields = KeySet(status_data)
    /\ capabilities.environmental_fields = KeySet(environmental_data)

\* The basic-fan payload with oson set to null: BASIC_OSCILLATION is not found
\* and oson is in status_fields.
C23_Witness ==
  /\ Discovered
  /\ status_data # NoneDict /\ DOMAIN status_data = {"fpwr", "fnsp", "oson"}
  /\ status_data["oson"] = None
  /\ capabilities.discovered_capabilities = {"BASIC_FAN_CONTROL"}
  /\ capabilities.status_fields = {"fpwr", "fnsp", "oson"}

\* The map that holds exactly the fields of a manifest that are present in a
\* map, and nothing else.
ManifestView(data, manifest) ==
  [k \in { field \in manifest : Present(data, field) } |-> "ON"]

\* C24: every field a detector inspects is in its manifest: on two pairs of
\* maps that agree, map by map, on the presence of every field of a detector's
\* manifest, the detector reports the same tags and the same confidence. Each
\* pair is compared with the pair that holds the present manifest fields only.
C24_DetectorReadsOnlyItsManifest ==
  (Discovered /\ status_data # NoneDict /\ environmental_data # NoneDict) =>
    \A i \in 1..Len(detectors) :
      \E s \in {ManifestView(status_data, get_required_fields(detectors[i]))} :
      \E e \in {ManifestView(environmental_data,
                              get_required_fields(detectors[i]))} :
        /\ detect(detectors[i], status_data, environmental_data)
             = detect(detectors[i], s, e)
        /\ get_confidence_score(detectors[i], status_data, environmental_data)
             = get_confidence_score(detectors[i], s, e)

\* The humidifier payload: the Humidification detector reports both of its tags
\* on maps that hold fields of other manifests (fpwr, p25r), and the same tags on
\* the two manifest fields alone.
C24_Witness ==
  /\ Discovered
  /\ Present(status_data, "fpwr") /\ Present(environmental_data, "p25r")
  /\ HumidificationDetector_detect(status_data, environmental_data).value
       = {"HUMIDIFICATION", "WATER_HARDNESS"}
  /\ HumidificationDetector_detect(Telemetry({"hume", "wath"}), EmptyDict).value
       = {"HUMIDIFICATION", "WATER_HARDNESS"}

\* The codes of the three vacuum robots.
VacuumTypes == { << "N", "2", "2", "3" >>, << "2", "7", "6" >>, << "2", "7", "7" >> }

\* C25: get_device uses only the static mapping for the three vacuum-robot
\* types and never calls the dynamic factory for them; for every other type it
\* calls the dynamic factory first and returns its result when that is a device;
\* it consults the static mapping only when the dynamic factory returned none or
\* raised, and an exception of the dynamic factory never reaches the caller.
C25_GetDeviceOrder ==
  pc \in {"get_device", "dynamic", "static", "returned", "raised"} =>
    /\ pc # "raised"
    /\ device_type \in VacuumTypes =>
         /\ \A i \in 1..Len(calls) : calls[i] = "_create_device_static"
         /\ pc = "returned" =>
              /\ calls = << "_create_device_static" >>
              /\ device_instance = _create_device_static(device_type)
              /\ device_instance # NoneDevice
    /\ device_type \notin VacuumTypes =>
         /\ calls # << >> => calls[1] = "get_device_with_capability_discovery"
         /\ pc = "returned" =>
              \E dynamic \in { get_device_with_capability_discovery(
                                  device_type, NoneDict, NoneDict) } :
                IF ~dynamic.raised /\ dynamic.value # NoneDevice
                  THEN /\ calls = << "get_device_with_capability_discovery" >>
                       /\ device_instance = dynamic.value
                  ELSE /\ calls = << "get_device_with_capability_discovery",
                                     "_create_device_static" >>
                       /\ device_instance = _create_device_static(device_type)

\* get_device was called with None for the device type: the dynamic factory
\* raised, the static mapping was consulted and the caller got None.
C25_Witness ==
  /\ pc = "returned"
  /\ device_type = NoneStr
  /\ get_device_with_capability_discovery(device_type, NoneDict, NoneDict).raised
  /\ calls = << "get_device_with_capability_discovery", "_create_device_static" >>
  /\ device_instance = NoneDevice

\* C26: when the hint of a tag set is "UnknownDevice", factory selection over
\* the same tag set yields no match.
C26_UnknownHintMeansNoMatch ==
  (pc = "both" /\ device_type_hint = "UnknownDevice") =>
    device_instance = NoneDevice

\* HEATING and HUMIDIFICATION without AUTO_MODE, with a tag no rule reads: the
\* hint is UnknownDevice and the selection matched nothing.
C26_Witness ==
  /\ pc = "both"
  /\ capabilities.discovered_capabilities
       = {"HEATING", "HUMIDIFICATION", "PM_SENSORS"}
  /\ device_type_hint = "UnknownDevice"
  /\ device_instance = NoneDevice

\* The consequence of C26 for the factory: a device created from telemetry whose
\* hint is UnknownDevice comes from the static fallback, or is none.
UnknownHintComesFromFallback ==
  (Created /\ ~(AbsentOrEmpty(status_data) /\ AbsentOrEmpty(environmental_data))
           /\ DiscoveryOfCall.device_type_hint = "UnknownDevice") =>
    /\ calls[Len(calls)] = "_fallback_to_static_mapping"
    /\ device_instance = StaticOutcome(device_type)

\* C27: selection yields AdvancedPurifierFan exactly when the hint is
\* "AdvancedPurifierFan", "AdvancedPurifierFanWithHeating" or
\* "AdvancedPurifierFanWithHumidification": both lists test first whether the
\* tag set holds any of VOC_SENSOR, NO2_SENSOR, CO2_SENSOR.
C27_AdvancedSelectionIffAdvancedHint ==
  pc = "both" =>
    ( device_instance.class = "DysonAdvancedPurifierFan"
      <=> device_type_hint \in { "AdvancedPurifierFan",
                                 "AdvancedPurifierFanWithHeating",
                                 "AdvancedPurifierFanWithHumidification" } )

\* One advanced sensor with heating, auto mode and filter monitoring: the hint
\* names the heating variant and the selection is the plain AdvancedPurifierFan.
C27_Witness ==
  /\ pc = "both"
  /\ capabilities.discovered_capabilities
       = {"NO2_SENSOR", "HEATING", "AUTO_MODE", "FILTER_MONITORING"}
  /\ device_type_hint = "AdvancedPurifierFanWithHeating"
  /\ device_instance.class = "DysonAdvancedPurifierFan"

\* The tags discovery finds on a pair of maps.
TagsOn(s, e) == discover_capabilities(s, e).discovered_capabilities

\* C28: tag discovery is monotone in the set of present fields: adding a field
\* to either map never removes a tag. Each pair of maps is compared with every
\* pair that lacks one of its present fields, the key deleted or its value null.
C28_TagsAreMonotone ==
  (Discovered /\ status_data # NoneDict /\ environmental_data # NoneDict) =>
    /\ \A field \in { f \in DOMAIN status_data : status_data[f] # None } :
         /\ TagsOn(DelItem(status_data, field), environmental_data)
              \subseteq capabilities.discovered_capabilities
         /\ TagsOn(SetItem(status_data, field, None), environmental_data)
              \subseteq capabilities.discovered_capabilities
    /\ \A field \in { f \in DOMAIN environmental_data :
                         environmental_data[f] # None } :
         /\ TagsOn(status_data, DelItem(environmental_data, field))
              \subseteq capabilities.discovered_capabilities
         /\ TagsOn(status_data, SetItem(environmental_data, field, None))
              \subseteq capabilities.discovered_capabilities

\* The heating-purifier payload with hflr added to cflr: FILTER_MONITORING, found
\* with cflr alone, is still found, and so is every other tag.
C28_Witness ==
  /\ Discovered
  /\ edits = 1
  /\ Present(status_data, "cflr") /\ Present(status_data, "hflr")
  /\ TagsOn(DelItem(status_data, "hflr"), environmental_data)
       = {"HEATING", "AUTO_MODE", "FILTER_MONITORING"}
  /\ capabilities.discovered_capabilities
       = {"HEATING", "AUTO_MODE", "FILTER_MONITORING"}

SameDiscovery(result) ==
  /\ capabilities.discovered_capabilities = result.discovered_capabilities
  /\ capabilities.device_type_hint = result.device_type_hint
  /\ capabilities.confidence_score = result.confidence_score

\* C30: discover treats an absent (null) status or environmental map as an
\* empty map: discover(null, M) gives the tags, hint and confidence of
\* discover({}, M), discover(M, null) those of discover(M, {}), and no detector
\* fails because a map is absent.
C30_NullMapIsEmptyMap ==
  Discovered =>
    /\ status_data = NoneDict =>
         SameDiscovery(discover_capabilities(EmptyDict, environmental_data))
    /\ environmental_data = NoneDict =>
         SameDiscovery(discover_capabilities(status_data, EmptyDict))
    /\ (status_data = NoneDict \/ environmental_data = NoneDict) =>
         \A i \in 1..Len(detectors) : Completed(detectors[i])

=============================================================================
